---- MODULE Spec2Model ----
(***************************************************************************)
(* Article workflow engine of seo-workflow-demo (src/app/services.py) over *)
(* the Firestore article store (src/app/storage/firestore.py).             *)
(*                                                                         *)
(* One article document is modelled.  The store is durable and outlives    *)
(* the process: the model starts with the document absent or exactly as    *)
(* FirestoreRepo.create_article writes it.  Every workflow method is a     *)
(* coroutine; a run of it is a task that advances one store access or one  *)
(* external call at a time, so every stored intermediate state is a state  *)
(* of the model.  Texts are abstracted to one representative value, the    *)
(* clock counts days.  Fields no claim reads (keyword, planned_date,       *)
(* pubmed_query, wp_title, wp_slug, wp_categories, wp_tags, sheet          *)
(* snapshot, slack_last_message_ts, slack_channel_id) are left out.        *)
(***************************************************************************)
EXTENDS Integers, Sequences, FiniteSets, TLC

VARIABLES articles, task, spawned, wp_posts, now, triggers, ticks, faults,
          confirmed, refused

vars ==
  <<articles, task, spawned, wp_posts, now, triggers, ticks, faults,
    confirmed, refused>>

\* ------------------------------------------------------------------ bounds
MaxTriggers == 4
MaxTicks == 2
MaxFaults == 1
MaxRevTriggers == 3
MaxWrites == 3
MaxLoads == 2
MaxResumeTriggers == 2
MaxPubTriggers == 2
MaxSelTriggers == 3
MaxDayTriggers == 3
MaxRequests == 2
MaxClicks == 2
MaxLiveTriggers == 2
MaxJobs == 1
MaxRows == 3
daily_max_articles == 1

\* ------------------------------------------------------- program constants
RetryDays == 7
RevisionCeiling == 3

None == "None"
NoInt == -1

AID == "ART-1"
Slots == {"a", "b"}
PMIDS == {"p1", "p2"}
SearchResults == {{"p1"}, {"p2"}}
ThreadTs == {"ts1"}
ReplyTs == {"ts1", "ts2"}
TickSteps == {RetryDays}

Phase ==
  { "OUTLINE_GENERATING", "OUTLINE_REVIEW", "OUTLINE_WAITING_FEEDBACK",
    "OUTLINE_CONFIRMED", "PAPER_SEARCHING", "PAPER_REVIEW",
    "PAPER_WAITING_FEEDBACK", "PAPER_CONFIRMED", "BODY_GENERATING",
    "BODY_REVIEW", "BODY_WAITING_FEEDBACK", "FINAL_REVIEW",
    "READY_TO_PUBLISH", "PUBLISHING", "PUBLISHED", "DISCARDED", "ERROR" }

\* ------------------------------------------------------------ the document
\* The ArticleState that start_article builds, as create_article stores it.
NewDoc(t) ==
  [ phase |-> "OUTLINE_GENERATING",
    slack_revision_thread_ts |-> None,
    outline_text |-> None,
    outline_feedback_text |-> None,
    outline_revision_count |-> 0,
    paper_candidates |-> {},
    selected_pmid |-> None,
    selected_paper |-> None,
    paper_feedback_text |-> None,
    paper_revision_count |-> 0,
    body_text |-> None,
    body_feedback_text |-> None,
    body_revision_count |-> 0,
    wp_post_id |-> NoInt,
    wp_post_url |-> NoInt,
    error_prev_phase |-> None,
    error_type |-> None,
    error_message |-> None,
    error_user_message |-> None,
    error_occurred_at |-> NoInt,
    retry_available_until |-> NoInt,
    created_at |-> t,
    updated_at |-> t,
    phase_updated_at |-> t ]

\* The values a stored phase may have: the phase names, the empty string,
\* no value at all ("Missing"), and strings that name no phase.
RawPhases == Phase \cup {"", "Missing", "GARBAGE", "outline_review"}

\* "Phase(phase_raw) if phase_raw else Phase.ERROR": a missing or empty
\* phase decodes to ERROR, a phase name to itself, and for any other string
\* the enum lookup raises ValueError.
decode_phase(raw) ==
  IF raw \in {"", "Missing"} THEN "ERROR"
  ELSE IF raw \in Phase THEN raw
  ELSE "ValueError"

\* ArticleState.from_dict: the phase is decoded; selected_paper is no field
\* of ArticleState and is dropped.
from_dict(d) ==
  [ f \in DOMAIN d \ {"selected_paper"} |->
      IF f = "phase" THEN decode_phase(d[f]) ELSE d[f] ]

Merge(d, patch) ==
  [ f \in DOMAIN d |-> IF f \in DOMAIN patch THEN patch[f] ELSE d[f] ]

\* FirestoreRepo.update_article_fields: merge the updates, stamp updated_at,
\* and set phase and phase_updated_at only when the phase differs.
NoPhase == "NoPhase"

update_article_fields(d, updates, set_phase, t) ==
  LET stamped == Merge(d, updates)
      timed   == [stamped EXCEPT !.updated_at = t]
  IN IF set_phase # NoPhase /\ d.phase # set_phase
     THEN [timed EXCEPT !.phase = set_phase, !.phase_updated_at = t]
     ELSE timed

\* A clear_error that keeps the retry window.
clear_error_keeping_window(d, t) ==
  [d EXCEPT !.error_prev_phase = None, !.error_type = None,
            !.error_message = None, !.error_user_message = None,
            !.error_occurred_at = NoInt, !.updated_at = t]

\* FirestoreRepo.clear_error: delete the six error fields, stamp updated_at.
clear_error(d, t) ==
  [d EXCEPT !.error_prev_phase = None, !.error_type = None,
            !.error_message = None, !.error_user_message = None,
            !.error_occurred_at = NoInt, !.retry_available_until = NoInt,
            !.updated_at = t]

\* A window of one day whatever the number of days asked for.
add_one_day(t, days) == t + 1

\* utils.time.add_days_jst_iso and is_expired on the day clock.
add_days_jst_iso(t, days) == t + days

is_expired(until, t) == t > until

\* Services._find_selected_candidate: None for an empty pmid or no match.
find_selected_candidate(candidates, pmid) ==
  IF pmid = None THEN None
  ELSE IF pmid \in candidates THEN pmid ELSE None

\* An error patch that forgets the phase the failure interrupted.
ErrorPatchWithoutPrevPhase(prev_phase, error_type, t) ==
  [ error_prev_phase |-> None,
    error_type |-> error_type,
    error_message |-> "message",
    error_user_message |-> "fixed",
    error_occurred_at |-> t,
    retry_available_until |-> t + RetryDays,
    slack_revision_thread_ts |-> None ]

\* The patch Services._handle_error writes.
ErrorPatch(prev_phase, error_type, t) ==
  [ error_prev_phase |-> prev_phase,
    error_type |-> error_type,
    error_message |-> "message",
    error_user_message |-> "fixed",
    error_occurred_at |-> t,
    retry_available_until |-> add_days_jst_iso(t, RetryDays),
    slack_revision_thread_ts |-> None ]

\* ------------------------------------------------------------------- tasks
SpawnKinds == {"generate_outline", "search_papers", "generate_body", "publish_article"}

\* prev_phase, the first assignment of every workflow method.
PrevPhase(kind) ==
  CASE kind = "generate_outline" -> "OUTLINE_GENERATING"
    [] kind = "approve_outline" -> "OUTLINE_REVIEW"
    [] kind = "request_outline_revision" -> "OUTLINE_REVIEW"
    [] kind = "receive_outline_feedback" -> "OUTLINE_WAITING_FEEDBACK"
    [] kind = "search_papers" -> "PAPER_SEARCHING"
    [] kind = "request_paper_revision" -> "PAPER_REVIEW"
    [] kind = "receive_paper_feedback" -> "PAPER_WAITING_FEEDBACK"
    [] kind = "select_paper" -> "PAPER_REVIEW"
    [] kind = "generate_body" -> "BODY_GENERATING"
    [] kind = "approve_body" -> "BODY_REVIEW"
    [] kind = "request_body_revision" -> "BODY_REVIEW"
    [] kind = "receive_body_feedback" -> "BODY_WAITING_FEEDBACK"
    [] kind = "final_approve" -> "FINAL_REVIEW"
    [] kind = "final_discard" -> "FINAL_REVIEW"
    [] kind = "confirm_publish" -> "READY_TO_PUBLISH"
    [] kind = "publish_article" -> "PUBLISHING"
    [] kind = "retry" -> "ERROR"
    [] OTHER -> None

NoState == from_dict(NewDoc(0))

\* kind: the workflow method; pc: its position; st: the ArticleState it
\* last loaded; arg: pmid, parent_ts or thread_ts; err: the classified
\* error once it has raised; posted: the messages this run has posted;
\* recorded: what _handle_error did to the record; notified: what became
\* of its message; extfail: whether a store
\* access or an external call of this run failed; gen: whether it called
\* the generation backend for title or taxonomy; created: whether it
\* created a post; existing: the post its existing-post check found; post:
\* the post id it holds; out: how the method ended.
Idle ==
  [ kind |-> "idle", pc |-> "idle", st |-> NoState, arg |-> None,
    err |-> None, posted |-> <<>>, recorded |-> "no", extfail |-> FALSE,
    notified |-> "no", gen |-> FALSE, created |-> FALSE, existing |-> NoInt,
    post |-> NoInt, out |-> "none" ]

NewTask(kind, pc, arg) == [Idle EXCEPT !.kind = kind, !.pc = pc, !.arg = arg]

Exists == AID \in DOMAIN articles

doc == articles[AID]

AllIdle == \A t \in Slots : task[t].kind = "idle"

NoSpawn == [k \in SpawnKinds |-> 0]

NoArticles == [a \in {} |-> NewDoc(0)]

NoUpdates == [f \in {} |-> None]

Init ==
  /\ articles \in {NoArticles, [a \in {AID} |-> NewDoc(0)]}
  /\ task = [t \in Slots |-> Idle]
  /\ spawned = NoSpawn
  /\ wp_posts = 0
  /\ now = 0
  /\ triggers = 0
  /\ ticks = 0
  /\ faults = 0
  /\ confirmed = FALSE
  /\ refused = FALSE

\* ------------------------------------------------------- building blocks
Effect(t, tk, arts, sp, wp) ==
  /\ task' = [task EXCEPT ![t] = tk]
  /\ articles' = arts
  /\ spawned' = sp
  /\ wp_posts' = wp
  /\ UNCHANGED <<now, triggers, ticks, faults, confirmed, refused>>

\* The same step when a store access or an external call fails in it.
Fault(t, tk, wp) ==
  /\ faults < MaxFaults
  /\ task' = [task EXCEPT ![t] = tk]
  /\ wp_posts' = wp
  /\ faults' = faults + 1
  /\ UNCHANGED <<articles, spawned, now, triggers, ticks, confirmed, refused>>

\* The task as it continues at pc with the ArticleState s just loaded.
At(t, s, pc) == [task[t] EXCEPT !.st = s, !.pc = pc]

\* An exception inside the method's try block: control passes to
\* _handle_error.  ext tells a failed store access or external call from a
\* raise of the method's own.
Raised(t, e, ext) ==
  [task[t] EXCEPT !.err = e, !.pc = "h_get", !.extfail = @ \/ ext]

Returned(t) == [task[t] EXCEPT !.pc = "done", !.out = "returned"]

\* A hand-over that schedules nothing.
SpawnNone(kind) == spawned

SpawnOne(kind) ==
  IF kind = None THEN spawned ELSE [spawned EXCEPT ![kind] = @ + 1]

\* What a method does with the ArticleState s a store access returned:
\* it goes on at pc, or raises e, an exception of its own making.
Continue(t, s, pc, e) ==
  IF e = None THEN At(t, s, pc)
  ELSE [Raised(t, e, FALSE) EXCEPT !.st = s]

\* repo.get_article: the ArticleState, or KeyError when the document is
\* absent, or a failure of the store.
Load(t, pc, e) ==
  \/ /\ Exists
     /\ Effect(t, Continue(t, from_dict(doc), pc, e), articles, spawned,
               wp_posts)
  \/ /\ ~Exists
     /\ Effect(t, Raised(t, "UnknownError", FALSE), articles, spawned, wp_posts)
  \/ Fault(t, Raised(t, "UnknownError", TRUE), wp_posts)

\* repo.update_article_fields, possibly after an external call that raises
\* callerr; the method goes on with the ArticleState the update returns.
Store(t, updates, set_phase, pc, e, callerr) ==
  \/ /\ Exists
     /\ LET d2 == update_article_fields(doc, updates, set_phase, now)
        IN Effect(t, Continue(t, from_dict(d2), pc, e),
                  [articles EXCEPT ![AID] = d2], spawned, wp_posts)
  \/ /\ ~Exists
     /\ Effect(t, Raised(t, "UnknownError", FALSE), articles, spawned, wp_posts)
  \/ Fault(t, Raised(t, "UnknownError", TRUE), wp_posts)
  \/ /\ callerr # None
     /\ Fault(t, Raised(t, callerr, TRUE), wp_posts)

\* _slack_post followed by the method's asyncio.create_task, if any, and
\* its return.
Post(t, msg, kind) ==
  \/ Effect(t, [Returned(t) EXCEPT !.posted = Append(@, msg)], articles,
            SpawnOne(kind), wp_posts)
  \/ Fault(t, Raised(t, "SlackApiError", TRUE), wp_posts)

\* ----------------------------------------------------------- _handle_error
\* Reload (a failure is tolerated), write the error patch with phase ERROR
\* (a failure is swallowed), post the fixed message with the retry button
\* (a failure is swallowed).
handle_error(t) ==
  \/ /\ task[t].pc = "h_get"
     /\ \/ /\ Exists
           /\ LET d2 == update_article_fields(
                          doc, ErrorPatch(PrevPhase(task[t].kind), task[t].err, now),
                          "ERROR", now)
              IN Effect(t, [task[t] EXCEPT !.pc = "h_post", !.recorded = "yes"],
                        [articles EXCEPT ![AID] = d2], spawned, wp_posts)
        \/ /\ ~Exists
           /\ Effect(t, [task[t] EXCEPT !.pc = "h_post", !.recorded = "lost"],
                     articles, spawned, wp_posts)
        \/ Fault(t, [task[t] EXCEPT !.pc = "h_post", !.recorded = "lost"], wp_posts)
  \/ /\ task[t].pc = "h_post"
     /\ \/ Effect(t, [Returned(t) EXCEPT !.posted = Append(@, "error"),
                                          !.notified = "yes"],
                  articles, spawned, wp_posts)
        \/ Fault(t, [Returned(t) EXCEPT !.notified = "lost"], wp_posts)

\* ------------------------------------------------------------ the methods
\* A ceiling test that lets a fourth round through.
AboveCeiling(count) == count > RevisionCeiling

\* A ceiling test that never holds.
NeverAtCeiling(count) == FALSE

\* The test "revision_count >= 3" of the RequestRevision handlers.
AtCeiling(count) == count >= RevisionCeiling

\* today_jst_ymd(): the day the scheduler and the start action run on.
Today == "d0"

\* The ids articles are stored under.
ArticleIds == {AID, "ART-2"}

\* A stored article planned for the date d.
PlannedDoc(d) ==
  [f \in DOMAIN NewDoc(0) \cup {"planned_date"} |->
     IF f = "planned_date" THEN d ELSE NewDoc(0)[f]]

\* An id generation that returns an id no stored article has.
generate_unused_article_id(used) == ArticleIds \ used

\* The ids the call generate_article_id(keyword=..., planned_date=...) of
\* start_article can return, given the ids in use: the function takes
\* planned_date and seq and no keyword, so the call raises TypeError and
\* returns none.
generate_article_id(used) == {}

\* start_article has no try block.  When the id generation raises, the
\* handler is left before create_article is reached.  With an id, the record
\* is created in OUTLINE_GENERATING (set, merge=False), the "started" message
\* is posted and generate_outline is spawned; a failing post raises after
\* the record was created and before the spawn.
start_article(t) ==
  /\ task[t].kind = "start_article"
  /\ task[t].pc = "snapshot"
  /\ LET ids == generate_article_id(DOMAIN articles)
     IN IF ids = {}
        THEN Effect(t, [task[t] EXCEPT !.pc = "done", !.out = "raised"],
                    articles, spawned, wp_posts)
        ELSE \E id \in ids, sent \in BOOLEAN :
               Effect(t,
                      IF sent
                      THEN [Returned(t) EXCEPT !.posted = <<"started">>]
                      ELSE [task[t] EXCEPT !.pc = "done", !.out = "raised",
                                           !.extfail = TRUE],
                      [a \in DOMAIN articles \cup {id} |->
                         IF a = id THEN PlannedDoc(Today) ELSE articles[a]],
                      IF sent THEN SpawnOne("generate_outline") ELSE spawned,
                      wp_posts)

generate_outline(t) ==
  /\ task[t].kind = "generate_outline"
  /\ \/ /\ task[t].pc = "get"
        /\ Load(t, "upd", None)
     \/ /\ task[t].pc = "upd"
        /\ Store(t, [outline_text |-> "outline", outline_feedback_text |-> None,
                     slack_revision_thread_ts |-> None],
                 "OUTLINE_REVIEW", "post", None, "OpenAIError")
     \/ /\ task[t].pc = "post"
        /\ Post(t, "outline_review", None)

approve_outline(t) ==
  /\ task[t].kind = "approve_outline"
  /\ \/ /\ task[t].pc = "get"
        /\ Load(t, "upd", None)
     \/ /\ task[t].pc = "upd"
        /\ Store(t, [slack_revision_thread_ts |-> None], "OUTLINE_CONFIRMED",
                 "post", None, None)
     \/ /\ task[t].pc = "post"
        /\ Post(t, "approved", "search_papers")

request_outline_revision(t) ==
  /\ task[t].kind = "request_outline_revision"
  /\ \/ /\ task[t].pc = "get"
        /\ Load(t, "upd", None)
     \/ /\ task[t].pc = "upd"
        /\ IF AtCeiling(task[t].st.outline_revision_count)
           THEN Store(t, [slack_revision_thread_ts |-> None], "FINAL_REVIEW",
                      "post_final", None, None)
           ELSE Store(t, [slack_revision_thread_ts |-> task[t].arg],
                      "OUTLINE_WAITING_FEEDBACK",
                      "post", None, None)
     \/ /\ task[t].pc = "post_final"
        /\ Post(t, "final_review", None)
     \/ /\ task[t].pc = "post"
        /\ Post(t, "revise_instruction", None)

receive_outline_feedback(t) ==
  /\ task[t].kind = "receive_outline_feedback"
  /\ \/ /\ task[t].pc = "get"
        /\ Load(t, "upd", None)
     \/ /\ task[t].pc = "upd"
        /\ Store(t, [outline_feedback_text |-> "feedback",
                     outline_revision_count |-> task[t].st.outline_revision_count + 1,
                     slack_revision_thread_ts |-> None],
                 "OUTLINE_GENERATING", "post", None, None)
     \/ /\ task[t].pc = "post"
        /\ Post(t, "feedback_received", "generate_outline")

\* generate_pubmed_query and fetch_top_abstracts come before the update; the
\* error kinds drawn stand for the ones they raise.
search_papers(t) ==
  /\ task[t].kind = "search_papers"
  /\ \/ /\ task[t].pc = "get"
        /\ Load(t, "upd", None)
     \/ /\ task[t].pc = "upd"
        /\ \E found \in SearchResults, e \in {"OpenAIError", "PubMedNoResults"} :
             Store(t, [paper_candidates |-> found, paper_feedback_text |-> None,
                       selected_pmid |-> None, slack_revision_thread_ts |-> None],
                   "PAPER_REVIEW", "post", None, e)
     \/ /\ task[t].pc = "post"
        /\ Post(t, "paper_review", None)

request_paper_revision(t) ==
  /\ task[t].kind = "request_paper_revision"
  /\ \/ /\ task[t].pc = "get"
        /\ Load(t, IF AtCeiling(from_dict(doc).paper_revision_count)
                    THEN "post_pick" ELSE "upd", None)
     \/ /\ task[t].pc = "post_pick"
        /\ Post(t, "pick_existing", None)
     \/ /\ task[t].pc = "upd"
        /\ Store(t, [slack_revision_thread_ts |-> task[t].arg],
                 "PAPER_WAITING_FEEDBACK", "post", None, None)
     \/ /\ task[t].pc = "post"
        /\ Post(t, "revise_instruction", None)

receive_paper_feedback(t) ==
  /\ task[t].kind = "receive_paper_feedback"
  /\ \/ /\ task[t].pc = "get"
        /\ Load(t, "upd", None)
     \/ /\ task[t].pc = "upd"
        /\ Store(t, [paper_feedback_text |-> "feedback",
                     paper_revision_count |-> task[t].st.paper_revision_count + 1,
                     slack_revision_thread_ts |-> None],
                 "PAPER_SEARCHING", "post", None, None)
     \/ /\ task[t].pc = "post"
        /\ Post(t, "feedback_received", "search_papers")

\* A pmid that is not among the stored candidates raises
\* ExternalApiError("PaperNotFound") inside the try block.
select_paper(t) ==
  /\ task[t].kind = "select_paper"
  /\ \/ /\ task[t].pc = "get"
        /\ Load(t, "upd",
                IF find_selected_candidate(from_dict(doc).paper_candidates,
                                           task[t].arg) = None
                THEN "PaperNotFound" ELSE None)
     \/ /\ task[t].pc = "upd"
        /\ Store(t, [selected_pmid |-> task[t].arg,
                     selected_paper |-> find_selected_candidate(
                                          task[t].st.paper_candidates, task[t].arg),
                     slack_revision_thread_ts |-> None],
                 "BODY_GENERATING", "post", None, None)
     \/ /\ task[t].pc = "post"
        /\ Post(t, "selected", "generate_body")

\* state.selected_paper is no attribute of ArticleState: the AttributeError
\* is raised right after the load, before any generation call.
generate_body(t) ==
  /\ task[t].kind = "generate_body"
  /\ task[t].pc = "get"
  /\ Load(t, "generate", "UnknownError")

\* SlackUI has no publish_confirm_blocks: the AttributeError is raised right
\* after the update returns, before the notification.
approve_body(t) ==
  /\ task[t].kind = "approve_body"
  /\ \/ /\ task[t].pc = "get"
        /\ Load(t, "upd", None)
     \/ /\ task[t].pc = "upd"
        /\ Store(t, [slack_revision_thread_ts |-> None], "READY_TO_PUBLISH",
                 "post", "UnknownError", None)

request_body_revision(t) ==
  /\ task[t].kind = "request_body_revision"
  /\ \/ /\ task[t].pc = "get"
        /\ Load(t, "upd", None)
     \/ /\ task[t].pc = "upd"
        /\ IF AtCeiling(task[t].st.body_revision_count)
           THEN Store(t, [slack_revision_thread_ts |-> None], "FINAL_REVIEW",
                      "post_final", None, None)
           ELSE Store(t, [slack_revision_thread_ts |-> task[t].arg],
                      "BODY_WAITING_FEEDBACK",
                      "post", None, None)
     \/ /\ task[t].pc = "post_final"
        /\ Post(t, "final_review", None)
     \/ /\ task[t].pc = "post"
        /\ Post(t, "revise_instruction", None)

receive_body_feedback(t) ==
  /\ task[t].kind = "receive_body_feedback"
  /\ \/ /\ task[t].pc = "get"
        /\ Load(t, "upd", None)
     \/ /\ task[t].pc = "upd"
        /\ Store(t, [body_feedback_text |-> "feedback",
                     body_revision_count |-> task[t].st.body_revision_count + 1,
                     slack_revision_thread_ts |-> None],
                 "BODY_GENERATING", "post", None, None)
     \/ /\ task[t].pc = "post"
        /\ Post(t, "feedback_received", "generate_body")

\* The branch final_approve takes for the ArticleState it loaded.
FinalApproveTarget(s) ==
  IF s.body_text # None THEN "READY_TO_PUBLISH"
  ELSE IF s.selected_pmid # None THEN "BODY_GENERATING"
  ELSE IF s.outline_text # None THEN "PAPER_SEARCHING"
  ELSE "OUTLINE_GENERATING"

WorkOf(phase) ==
  CASE phase = "OUTLINE_GENERATING" -> "generate_outline"
    [] phase = "PAPER_SEARCHING" -> "search_papers"
    [] phase = "BODY_GENERATING" -> "generate_body"
    [] phase = "PUBLISHING" -> "publish_article"
    [] OTHER -> None

\* The READY_TO_PUBLISH branch uses the missing publish_confirm_blocks too.
\* The branch is chosen on the state loaded; the unit it schedules is the one
\* of the phase it wrote, which the state returned by the write carries.
final_approve(t) ==
  /\ task[t].kind = "final_approve"
  /\ \/ /\ task[t].pc = "get"
        /\ Load(t, "upd", None)
     \/ /\ task[t].pc = "upd"
        /\ Store(t, [slack_revision_thread_ts |-> None],
                 FinalApproveTarget(task[t].st),
                 "post",
                 IF FinalApproveTarget(task[t].st) = "READY_TO_PUBLISH"
                 THEN "UnknownError" ELSE None,
                 None)
     \/ /\ task[t].pc = "post"
        /\ Post(t, "final_approved", WorkOf(task[t].st.phase))

final_discard(t) ==
  /\ task[t].kind = "final_discard"
  /\ \/ /\ task[t].pc = "get"
        /\ Load(t, "upd", None)
     \/ /\ task[t].pc = "upd"
        /\ Store(t, [slack_revision_thread_ts |-> None], "DISCARDED",
                 "post", None, None)
     \/ /\ task[t].pc = "post"
        /\ Post(t, "discarded", None)

confirm_publish(t) ==
  /\ task[t].kind = "confirm_publish"
  /\ \/ /\ task[t].pc = "get"
        /\ Load(t, "upd", None)
     \/ /\ task[t].pc = "upd"
        /\ Store(t, NoUpdates, "PUBLISHING", "post", None, None)
     \/ /\ task[t].pc = "post"
        /\ Post(t, "publish_start", "publish_article")

\* An existing-post check that never sees the marker.
find_no_existing(n) == {}

\* WordPressClient.find_existing_by_article_id over a backend holding n
\* posts with the article's marker: the posts it may return (which one, when
\* several carry the marker, is the backend's order), none when n = 0.
find_existing_by_article_id(n) == 1..n

\* A patch that records the post id without its url.
PublishedPatchWithoutUrl(post) == [wp_post_id |-> post]

\* The updates of the two PUBLISHED writes of publish_article: the id and
\* the url of the post (title, slug and taxonomy are read by no handler).
PublishedPatch(post) == [wp_post_id |-> post, wp_post_url |-> post]

\* publish_post creates the post and may still raise on its response.
publish_article(t) ==
  /\ task[t].kind = "publish_article"
  /\ \/ /\ task[t].pc = "get"
        /\ Load(t, "find", None)
     \/ /\ task[t].pc = "find"
        /\ \/ \E id \in find_existing_by_article_id(wp_posts) :
                Effect(t, [task[t] EXCEPT !.pc = "adopt", !.existing = id,
                                          !.post = id],
                       articles, spawned, wp_posts)
           \/ /\ find_existing_by_article_id(wp_posts) = {}
              /\ Effect(t,
                        IF find_selected_candidate(task[t].st.paper_candidates,
                                                   task[t].st.selected_pmid) = None
                        THEN Raised(t, "NoSelectedPaper", FALSE)
                        ELSE [task[t] EXCEPT !.pc = "gen"],
                        articles, spawned, wp_posts)
           \/ Fault(t, Raised(t, "WordPressError", TRUE), wp_posts)
     \/ /\ task[t].pc = "adopt"
        /\ Store(t, PublishedPatch(task[t].post),
                 "PUBLISHED", "post", None, None)
     \/ /\ task[t].pc = "gen"
        /\ \/ Effect(t, [task[t] EXCEPT !.pc = "publish", !.gen = TRUE],
                     articles, spawned, wp_posts)
           \/ Fault(t, [Raised(t, "OpenAIError", TRUE) EXCEPT !.gen = TRUE], wp_posts)
     \/ /\ task[t].pc = "publish"
        /\ \/ Effect(t, [task[t] EXCEPT !.pc = "upd", !.created = TRUE,
                                        !.post = wp_posts + 1],
                     articles, spawned, wp_posts + 1)
           \/ Fault(t, [Raised(t, "WordPressError", TRUE) EXCEPT
                          !.created = TRUE, !.post = wp_posts + 1],
                    wp_posts + 1)
           \/ Fault(t, Raised(t, "WordPressError", TRUE), wp_posts)
     \/ /\ task[t].pc = "upd"
        /\ Store(t, PublishedPatch(task[t].post),
                 "PUBLISHED", "post", None, None)
     \/ /\ task[t].pc = "post"
        /\ Post(t, "published", None)

\* A retry that always goes back to the first phase.
RetryTargetOutline(raw) == "OUTLINE_GENERATING"

\* Phase(target_phase_raw), with OUTLINE_GENERATING for a value that is no
\* phase name.
RetryTarget(raw) == IF raw \in Phase THEN raw ELSE "OUTLINE_GENERATING"

\* A fallback that publishes whatever the record holds.
RetryWorkPublishing(target, s) ==
  IF WorkOf(target) # None THEN WorkOf(target) ELSE "publish_article"

\* The unit of work retry starts for the phase it restored and the
\* ArticleState s the update returned.
RetryWork(target, s) ==
  IF WorkOf(target) # None THEN WorkOf(target)
  ELSE IF s.body_text # None THEN "publish_article"
  ELSE IF s.selected_pmid # None THEN "generate_body"
  ELSE IF s.outline_text # None THEN "search_papers"
  ELSE "generate_outline"

\* The message retry refuses with, None when it goes on.
RetryRefusal(s, t) ==
  IF s.retry_available_until = NoInt \/ is_expired(s.retry_available_until, t)
  THEN "expired"
  ELSE IF s.error_prev_phase = None THEN "cannot_retry" ELSE None

\* The retry window of s was set and is over at time t.
WindowElapsed(s, t) ==
  s.retry_available_until # NoInt /\ is_expired(s.retry_available_until, t)

retry(t) ==
  /\ task[t].kind = "retry"
  /\ \/ /\ task[t].pc = "get"
        /\ \/ /\ Exists
              /\ LET s == from_dict(doc)
                 IN /\ task' = [task EXCEPT ![t] =
                                  IF RetryRefusal(s, now) # None
                                  THEN [At(t, s, "post_refuse") EXCEPT
                                          !.arg = RetryRefusal(s, now)]
                                  ELSE At(t, s, "clear")]
                    /\ refused' = (refused \/ WindowElapsed(s, now))
              /\ UNCHANGED <<articles, spawned, wp_posts, now, triggers, ticks,
                             faults, confirmed>>
           \/ /\ ~Exists
              /\ Effect(t, Raised(t, "UnknownError", FALSE), articles, spawned,
                        wp_posts)
           \/ Fault(t, Raised(t, "UnknownError", TRUE), wp_posts)
     \/ /\ task[t].pc = "post_refuse"
        /\ Post(t, task[t].arg, None)
     \/ /\ task[t].pc = "clear"
        /\ \/ /\ Exists
              /\ Effect(t, [task[t] EXCEPT !.pc = "upd"],
                        [articles EXCEPT ![AID] = clear_error(doc, now)],
                        spawned, wp_posts)
           \/ Fault(t, Raised(t, "UnknownError", TRUE), wp_posts)
     \/ /\ task[t].pc = "upd"
        /\ LET target == RetryTarget(task[t].st.error_prev_phase)
           IN \/ /\ Exists
                 /\ LET d2 == update_article_fields(doc, NoUpdates, target, now)
                    IN Effect(t, [Returned(t) EXCEPT !.st = from_dict(d2)],
                              [articles EXCEPT ![AID] = d2],
                              SpawnOne(RetryWork(target, from_dict(d2))), wp_posts)
              \/ Fault(t, Raised(t, "UnknownError", TRUE), wp_posts)

\* ------------------------------------------------------------ the triggers
\* The normalized actions process_slack_action dispatches, as <<action_id,
\* argument>>: select_paper_<pmid> carries the pmid, the revise actions the
\* message_ts of the message the button was on.  skip_article, which only
\* posts a message, and actions with an empty value, which return at once,
\* touch neither the store nor a unit of work and are not drawn.
Actions ==
  { <<a, None>> : a \in {"create_article", "approve_outline", "approve_body",
                         "final_approve", "final_discard", "confirm_publish",
                         "retry"} }
  \cup { <<a, ts>> : a \in {"revise_outline", "revise_body", "revise_paper"},
                     ts \in ThreadTs }
  \cup { <<"select_paper_", p>> : p \in PMIDS }

Dispatch(action_id) ==
  CASE action_id = "create_article" -> "start_article"
    [] action_id = "approve_outline" -> "approve_outline"
    [] action_id = "revise_outline" -> "request_outline_revision"
    [] action_id = "approve_body" -> "approve_body"
    [] action_id = "revise_body" -> "request_body_revision"
    [] action_id = "select_paper_" -> "select_paper"
    [] action_id = "revise_paper" -> "request_paper_revision"
    [] action_id = "final_approve" -> "final_approve"
    [] action_id = "final_discard" -> "final_discard"
    [] action_id = "confirm_publish" -> "confirm_publish"
    [] action_id = "retry" -> "retry"

\* A trigger is taken up when no other method is running: runs do not
\* overlap.
Free(t) == AllIdle /\ t = "a"

\* process_slack_action for one of the actions acts, the max-th trigger at
\* the latest: the method it dispatches to starts.
StartAction(t, acts, max) ==
  /\ triggers < max
  /\ \E a \in acts :
       /\ task' = [task EXCEPT ![t] =
                     NewTask(Dispatch(a[1]),
                             IF a[1] = "create_article" THEN "snapshot" ELSE "get",
                             a[2])]
       /\ confirmed' = (confirmed \/ a[1] = "confirm_publish")
  /\ triggers' = triggers + 1
  /\ UNCHANGED <<articles, spawned, wp_posts, now, ticks, faults, refused>>

process_slack_action(t) ==
  /\ Free(t)
  /\ StartAction(t, Actions, MaxTriggers)

\* The reply is matched to the document by its thread marker; the phase of
\* the matched document selects the receive_*_feedback method, which loads
\* the document again.  No match, or a phase that waits for no feedback:
\* the reply is dropped.  A failing query leaves the method as an exception.
FeedbackOf(phase) ==
  CASE phase = "OUTLINE_WAITING_FEEDBACK" -> "receive_outline_feedback"
    [] phase = "PAPER_WAITING_FEEDBACK" -> "receive_paper_feedback"
    [] phase = "BODY_WAITING_FEEDBACK" -> "receive_body_feedback"
    [] OTHER -> None

\* A query that returns the document whatever its thread marker.
find_any_article(thread_ts) ==
  IF Exists THEN {from_dict(doc)} ELSE {}

\* FirestoreRepo.find_by_revision_thread_ts: the documents whose marker
\* equals thread_ts, decoded (replies always carry a thread_ts).
find_by_revision_thread_ts(thread_ts) ==
  IF Exists /\ doc.slack_revision_thread_ts = thread_ts
  THEN {from_dict(doc)} ELSE {}

\* A thread reply with one of the thread_ts values tss arrives.
StartReply(t, tss, max) ==
  /\ triggers < max
  /\ \E ts \in tss :
       task' = [task EXCEPT ![t] = NewTask("process_slack_thread_message", "find", ts)]
  /\ triggers' = triggers + 1
  /\ UNCHANGED <<articles, spawned, wp_posts, now, ticks, faults, confirmed, refused>>

\* The query of process_slack_thread_message and its dispatch on the phase
\* of the state found.
thread_message_find(t) ==
  /\ task[t].kind = "process_slack_thread_message"
  /\ task[t].pc = "find"
  /\ \/ LET found == find_by_revision_thread_ts(task[t].arg)
        IN Effect(t,
                  IF found = {} THEN Returned(t)
                  ELSE LET s == CHOOSE x \in found : TRUE
                       IN IF FeedbackOf(s.phase) = None THEN Returned(t)
                          ELSE [task[t] EXCEPT !.kind = FeedbackOf(s.phase),
                                               !.pc = "get", !.st = s],
                  articles, spawned, wp_posts)
     \/ Fault(t, [task[t] EXCEPT !.pc = "done", !.out = "raised",
                                 !.extfail = TRUE], wp_posts)

process_slack_thread_message(t) ==
  \/ /\ Free(t)
     /\ StartReply(t, ThreadTs, MaxTriggers)
  \/ thread_message_find(t)

\* A unit of work started with asyncio.create_task begins to run.
StartSpawned(t) ==
  /\ \E k \in SpawnKinds :
       /\ spawned[k] > 0
       /\ task' = [task EXCEPT ![t] = NewTask(k, "get", None)]
       /\ spawned' = [spawned EXCEPT ![k] = @ - 1]
  /\ UNCHANGED <<articles, wp_posts, now, triggers, ticks, faults, confirmed, refused>>

run_spawned(t) ==
  /\ Free(t)
  /\ StartSpawned(t)

\* The coroutine is gone.
Finish(t) ==
  /\ task[t].pc = "done"
  /\ task' = [task EXCEPT ![t] = Idle]
  /\ UNCHANGED <<articles, spawned, wp_posts, now, triggers, ticks, faults, confirmed, refused>>

\* Time passes.  The clock counts days and a unit of work takes seconds, so
\* the clock moves between units of work.
Tick ==
  /\ ticks < MaxTicks
  /\ AllIdle
  /\ spawned = NoSpawn
  /\ \E d \in TickSteps : now' = now + d
  /\ ticks' = ticks + 1
  /\ UNCHANGED <<articles, task, spawned, wp_posts, triggers, faults, confirmed, refused>>

Next ==
  \/ \E t \in Slots :
       \/ process_slack_action(t)
       \/ process_slack_thread_message(t)
       \/ run_spawned(t)
       \/ start_article(t)
       \/ generate_outline(t)
       \/ approve_outline(t)
       \/ request_outline_revision(t)
       \/ receive_outline_feedback(t)
       \/ search_papers(t)
       \/ request_paper_revision(t)
       \/ receive_paper_feedback(t)
       \/ select_paper(t)
       \/ generate_body(t)
       \/ approve_body(t)
       \/ request_body_revision(t)
       \/ receive_body_feedback(t)
       \/ final_approve(t)
       \/ final_discard(t)
       \/ confirm_publish(t)
       \/ publish_article(t)
       \/ retry(t)
       \/ handle_error(t)
       \/ Finish(t)
  \/ Tick

Spec == Init /\ [][Next]_vars

\* ------------------------------------------------- overlapping revision runs
\* The handlers run as background tasks of the web application and every
\* store access and external call of a handler is awaited, so the steps of
\* two runs interleave.  This specification starts from a record that waits
\* in a review of one stage after k revision rounds and delivers the
\* revise buttons, thread replies and RETRY to two overlapping runs.
Stages == {"outline", "paper", "body"}

\* The record after k revision rounds of a stage: the outline and the paper
\* stage wait in their review; body generation has failed (generate_body
\* always raises), so the body stage stands in ERROR with BODY_GENERATING
\* recorded.
ReviewDoc(stage, k) ==
  LET outlined == [NewDoc(0) EXCEPT !.outline_text = "outline"]
      searched == [outlined EXCEPT !.paper_candidates = {"p1"}]
  IN CASE stage = "outline" ->
            [outlined EXCEPT !.phase = "OUTLINE_REVIEW",
                             !.outline_revision_count = k]
       [] stage = "paper" ->
            [searched EXCEPT !.phase = "PAPER_REVIEW",
                             !.paper_revision_count = k]
       [] stage = "body" ->
            Merge([searched EXCEPT !.phase = "ERROR",
                                   !.selected_pmid = "p1",
                                   !.selected_paper = "p1",
                                   !.body_feedback_text =
                                      IF k > 0 THEN "feedback" ELSE None,
                                   !.body_revision_count = k],
                  ErrorPatch("BODY_GENERATING", "UnknownError", 0))

RevInit ==
  /\ \E stage \in Stages, k \in 0..RevisionCeiling :
       articles = [a \in {AID} |-> ReviewDoc(stage, k)]
  /\ task = [t \in Slots |-> Idle]
  /\ spawned = NoSpawn
  /\ wp_posts = 0
  /\ now = 0
  /\ triggers = 0
  /\ ticks = 0
  /\ faults = 0
  /\ confirmed = FALSE
  /\ refused = FALSE

RevActions ==
  { <<a, ts>> : a \in {"revise_outline", "revise_body", "revise_paper"},
                ts \in ThreadTs }
  \cup {<<"retry", None>>}

\* A run starts in an idle slot whatever the other slot does; of two idle
\* slots the first is taken.
FreeSlot(t) ==
  /\ task[t].kind = "idle"
  /\ t = "b" => task["a"].kind # "idle"

overlapping_slack_action(t) ==
  /\ FreeSlot(t)
  /\ StartAction(t, RevActions, MaxRevTriggers)

overlapping_thread_message(t) ==
  /\ FreeSlot(t)
  /\ StartReply(t, ReplyTs, MaxRevTriggers)

overlapping_spawned(t) ==
  /\ FreeSlot(t)
  /\ StartSpawned(t)

RevNext ==
  \E t \in Slots :
    \/ overlapping_slack_action(t)
    \/ overlapping_thread_message(t)
    \/ thread_message_find(t)
    \/ overlapping_spawned(t)
    \/ generate_outline(t)
    \/ request_outline_revision(t)
    \/ receive_outline_feedback(t)
    \/ search_papers(t)
    \/ request_paper_revision(t)
    \/ receive_paper_feedback(t)
    \/ generate_body(t)
    \/ request_body_revision(t)
    \/ receive_body_feedback(t)
    \/ retry(t)
    \/ handle_error(t)
    \/ Finish(t)

RevSpec == RevInit /\ [][RevNext]_vars

\* ------------------------------------------------------ the store by itself
\* The two writing methods of FirestoreRepo under any sequence of calls from
\* two callers.  update_article_fields reads the document, builds its patch
\* from what it read and merges the patch in a second access, with no
\* transaction around the two; the workflow methods call it in worker
\* threads, so two calls overlap.  clear_error is a single merge.
\* now_jst_iso has microsecond resolution and every write is a round trip
\* to the store, so each write bears a later time than the one before it:
\* here the clock counts writes.
StoreInit ==
  /\ articles = [a \in {AID} |-> NewDoc(0)]
  /\ task = [t \in Slots |-> Idle]
  /\ spawned = NoSpawn
  /\ wp_posts = 0
  /\ now = 0
  /\ triggers = 0
  /\ ticks = 0
  /\ faults = 0
  /\ confirmed = FALSE
  /\ refused = FALSE

\* The kinds of updates the workflow methods pass: none, a thread marker,
\* the error patch.
StoreUpdates(t) ==
  { NoUpdates,
    [slack_revision_thread_ts |-> "ts1"],
    ErrorPatch("OUTLINE_REVIEW", "UnknownError", t) }

\* The patch update_article_fields builds from the phase it read.
update_patch(cur_phase, updates, set_phase, t) ==
  LET stamped == [f \in DOMAIN updates \cup {"updated_at"} |->
                    IF f = "updated_at" THEN t ELSE updates[f]]
  IN IF set_phase # NoPhase /\ cur_phase # set_phase
     THEN [f \in DOMAIN stamped \cup {"phase", "phase_updated_at"} |->
             IF f = "phase" THEN set_phase
             ELSE IF f = "phase_updated_at" THEN t
             ELSE stamped[f]]
     ELSE stamped

\* ref.get() of update_article_fields: the call starts and reads the
\* current phase; arg holds the phase asked for, st what was read.
store_get(t) ==
  /\ FreeSlot(t)
  /\ triggers < MaxWrites
  /\ \E set_phase \in Phase \cup {NoPhase} :
       task' = [task EXCEPT ![t] =
                  [NewTask("update_article_fields", "set", set_phase)
                     EXCEPT !.st = [NoState EXCEPT !.phase = doc.phase]]]
  /\ triggers' = triggers + 1
  /\ UNCHANGED <<articles, spawned, wp_posts, now, ticks, faults, confirmed,
                 refused>>

\* ref.set(patch, merge=True) of update_article_fields, and its return.
store_set(t) ==
  /\ task[t].kind = "update_article_fields"
  /\ task[t].pc = "set"
  /\ \E updates \in StoreUpdates(now + 1) :
       articles' = [articles EXCEPT ![AID] =
                      Merge(doc, update_patch(task[t].st.phase, updates,
                                              task[t].arg, now + 1))]
  /\ task' = [task EXCEPT ![t] = Idle]
  /\ now' = now + 1
  /\ UNCHANGED <<spawned, wp_posts, triggers, ticks, faults, confirmed, refused>>

store_clear ==
  /\ triggers < MaxWrites
  /\ articles' = [articles EXCEPT ![AID] = clear_error(doc, now + 1)]
  /\ now' = now + 1
  /\ triggers' = triggers + 1
  /\ UNCHANGED <<task, spawned, wp_posts, ticks, faults, confirmed, refused>>

StoreNext ==
  \/ \E t \in Slots : store_get(t) \/ store_set(t)
  \/ store_clear

StoreSpec == StoreInit /\ [][StoreNext]_vars

\* --------------------------------------------------------------- at rest
\* No method runs, nothing is scheduled, nothing has been posted or counted.
AtRest ==
  /\ task = [t \in Slots |-> Idle]
  /\ spawned = NoSpawn
  /\ wp_posts = 0
  /\ now = 0
  /\ triggers = 0
  /\ ticks = 0
  /\ faults = 0
  /\ confirmed = FALSE
  /\ refused = FALSE

\* ------------------------------------------------------- loading a record
\* get_article on a record whose stored phase is any of RawPhases: the
\* store is durable and holds what earlier writers left in it.
DecodeInit ==
  /\ \E raw \in RawPhases, k \in 0..RevisionCeiling :
       articles = [a \in {AID} |->
                     [NewDoc(0) EXCEPT !.phase = raw,
                                       !.outline_revision_count = k]]
  /\ AtRest

\* FirestoreRepo.get_article: read the document and decode it; the
\* ValueError of the enum lookup leaves get_article.
get_article(t) ==
  \/ /\ FreeSlot(t)
     /\ triggers < MaxLoads
     /\ task' = [task EXCEPT ![t] = NewTask("get_article", "get", None)]
     /\ triggers' = triggers + 1
     /\ UNCHANGED <<articles, spawned, wp_posts, now, ticks, faults, confirmed,
                    refused>>
  \/ /\ task[t].kind = "get_article"
     /\ task[t].pc = "get"
     /\ \/ Effect(t,
                  IF decode_phase(doc.phase) = "ValueError"
                  THEN [task[t] EXCEPT !.pc = "done", !.out = "raised",
                                       !.err = "ValueError"]
                  ELSE [Returned(t) EXCEPT !.st = from_dict(doc)],
                  articles, spawned, wp_posts)
        \/ Fault(t, [task[t] EXCEPT !.pc = "done", !.out = "raised",
                                    !.extfail = TRUE], wp_posts)

DecodeNext == \E t \in Slots : get_article(t) \/ Finish(t)

DecodeSpec == DecodeInit /\ [][DecodeNext]_vars

\* ------------------------------------------------- resuming from artifacts
\* A record holding any combination of outline, selected paper and body.
ArtifactDoc(outlined, selected, bodied) ==
  [NewDoc(0) EXCEPT
     !.outline_text = IF outlined THEN "outline" ELSE None,
     !.paper_candidates = IF selected THEN {"p1"} ELSE {},
     !.selected_pmid = IF selected THEN "p1" ELSE None,
     !.selected_paper = IF selected THEN "p1" ELSE None,
     !.body_text = IF bodied THEN "body" ELSE None]

\* The final decision is asked of a record in FINAL_REVIEW; the buttons
\* final_approve and final_discard and RETRY are delivered one at a time.
FinalInit ==
  /\ \E outlined, selected, bodied \in BOOLEAN :
       articles = [a \in {AID} |->
                     [ArtifactDoc(outlined, selected, bodied)
                        EXCEPT !.phase = "FINAL_REVIEW"]]
  /\ AtRest

FinalActions ==
  { <<a, None>> : a \in {"final_approve", "final_discard", "retry"} }

final_slack_action(t) ==
  /\ Free(t)
  /\ StartAction(t, FinalActions, MaxResumeTriggers)

FinalNext ==
  \E t \in Slots :
    \/ final_slack_action(t)
    \/ run_spawned(t)
    \/ final_approve(t)
    \/ final_discard(t)
    \/ retry(t)
    \/ generate_outline(t)
    \/ search_papers(t)
    \/ generate_body(t)
    \/ publish_article(t)
    \/ handle_error(t)
    \/ Finish(t)

FinalSpec == FinalInit /\ [][FinalNext]_vars

\* RETRY on a record in ERROR whose error_prev_phase names no phase.
UnrecognizedPrev == {"GARBAGE", "outline_review"}

FallbackInit ==
  /\ \E outlined, selected, bodied \in BOOLEAN, raw \in UnrecognizedPrev :
       articles = [a \in {AID} |->
                     Merge([ArtifactDoc(outlined, selected, bodied)
                              EXCEPT !.phase = "ERROR"],
                           [ErrorPatch("OUTLINE_GENERATING", "UnknownError", 0)
                              EXCEPT !.error_prev_phase = raw])]
  /\ AtRest

FallbackActions == { <<"retry", None>> }

fallback_slack_action(t) ==
  /\ Free(t)
  /\ StartAction(t, FallbackActions, MaxResumeTriggers)

FallbackNext ==
  \E t \in Slots :
    \/ fallback_slack_action(t)
    \/ run_spawned(t)
    \/ retry(t)
    \/ generate_outline(t)
    \/ handle_error(t)
    \/ Finish(t)

FallbackSpec == FallbackInit /\ [][FallbackNext]_vars

\* ------------------------------------------------ overlapping publish runs
\* The record with a selected paper (body generation has failed); the
\* confirm_publish button and RETRY are delivered to two overlapping runs.
PubInit ==
  /\ articles = [a \in {AID} |-> ReviewDoc("body", 0)]
  /\ AtRest

PubActions == { <<a, None>> : a \in {"confirm_publish", "retry"} }

publish_slack_action(t) ==
  /\ FreeSlot(t)
  /\ StartAction(t, PubActions, MaxPubTriggers)

PubNext ==
  \E t \in Slots :
    \/ publish_slack_action(t)
    \/ overlapping_spawned(t)
    \/ confirm_publish(t)
    \/ publish_article(t)
    \/ retry(t)
    \/ generate_body(t)
    \/ handle_error(t)
    \/ Finish(t)

PubSpec == PubInit /\ [][PubNext]_vars

\* ------------------------------------------- selecting during a re-search
\* The record waits in PAPER_REVIEW with its candidates posted; the revise
\* button, a thread reply and the select buttons are delivered to two
\* overlapping runs, so a selection can run beside the search a reply
\* started.
SelInit ==
  /\ articles = [a \in {AID} |-> ReviewDoc("paper", 0)]
  /\ AtRest

SelActions ==
  { <<"revise_paper", ts>> : ts \in ThreadTs }
  \cup { <<"select_paper_", p>> : p \in PMIDS }

select_slack_action(t) ==
  /\ FreeSlot(t)
  /\ StartAction(t, SelActions, MaxSelTriggers)

select_thread_message(t) ==
  /\ FreeSlot(t)
  /\ StartReply(t, ThreadTs, MaxSelTriggers)

SelNext ==
  \E t \in Slots :
    \/ select_slack_action(t)
    \/ select_thread_message(t)
    \/ thread_message_find(t)
    \/ overlapping_spawned(t)
    \/ request_paper_revision(t)
    \/ receive_paper_feedback(t)
    \/ search_papers(t)
    \/ select_paper(t)
    \/ generate_body(t)
    \/ handle_error(t)
    \/ Finish(t)

SelSpec == SelInit /\ [][SelNext]_vars

\* ---------------------------------------------------- creating the record
\* FirestoreRepo.create_article with the ArticleState start_article builds:
\* set(d, merge=False) replaces the document, whether or not one exists.
store_create ==
  /\ triggers < MaxWrites
  /\ articles' = [articles EXCEPT ![AID] = NewDoc(now + 1)]
  /\ now' = now + 1
  /\ triggers' = triggers + 1
  /\ UNCHANGED <<task, spawned, wp_posts, ticks, faults, confirmed, refused>>

CreateNext == StoreNext \/ store_create

CreateSpec == StoreInit /\ [][CreateNext]_vars

\* ----------------------------------------------------------- notify_planned
\* The cells of a sheet row that matter: <<keyword, planned date>>, either
\* of today or of another day, the keyword possibly empty.
Cells == {"", "k1", "k2"} \X {Today, "d1"}

RECURSIVE SheetsUpTo(_)
SheetsUpTo(n) ==
  IF n = 0 THEN {<<>>}
  ELSE SheetsUpTo(n - 1)
       \cup {Append(s, c) : s \in {x \in SheetsUpTo(n - 1) : Len(x) = n - 1},
                            c \in Cells}

NotifyInit ==
  /\ \E ids \in SUBSET ArticleIds :
       articles \in [ids -> {PlannedDoc(d) : d \in {Today, "d1"}}]
  /\ AtRest

\* SheetsClient.planned_for_today: the rows with a keyword and today's date.
IsPlannedToday(r) == r[1] # "" /\ r[2] = Today

planned_for_today(values) == SelectSeq(values, IsPlannedToday)

\* The de-dupe of notify_planned: a dict keyed by (keyword, date) keeps one
\* entry per key, in the order the keys first appear.
RECURSIVE dedupe(_, _)
dedupe(uniq, rows) ==
  IF rows = <<>> THEN uniq
  ELSE LET k == Head(rows)
       IN dedupe(IF k[1] = "" \/ k[2] = "" \/ \E i \in 1..Len(uniq) : uniq[i] = k
                 THEN uniq ELSE Append(uniq, k),
                 Tail(rows))

\* FirestoreRepo.count_articles_for_date.
count_articles_for_date(planned_date) ==
  Cardinality({a \in DOMAIN articles : articles[a].planned_date = planned_date})

\* A ceiling that stops only above the maximum.
ceiling_exceeded(count) == count > daily_max_articles

\* "count >= self.settings.daily_max_articles".
ceiling_reached(count) == count >= daily_max_articles

LimitNotice == [kind |-> "limit", keyword |-> None, planned_date |-> None]

StartNotice(p) == [kind |-> "start", keyword |-> p[1], planned_date |-> p[2]]

\* The scheduler calls /jobs/notify_planned.  arg holds the sheet values
\* read, the de-duplicated plan and the count; posted the messages sent.
\* notify_planned has no try block: a failing read, count or post raises.
notify_planned(t) ==
  \/ /\ Free(t)
     /\ triggers < MaxJobs
     /\ task' = [task EXCEPT ![t] = NewTask("notify_planned", "read", None)]
     /\ triggers' = triggers + 1
     /\ UNCHANGED <<articles, spawned, wp_posts, now, ticks, faults, confirmed,
                    refused>>
  \/ /\ task[t].kind = "notify_planned"
     /\ \/ /\ task[t].pc = "read"
           /\ \/ \E values \in SheetsUpTo(MaxRows) :
                   LET planned == dedupe(<<>>, planned_for_today(values))
                       read == [task[t] EXCEPT
                                  !.arg = [values |-> values,
                                           planned |-> planned,
                                           count |-> NoInt]]
                   IN Effect(t,
                             IF planned = <<>>
                             THEN [read EXCEPT !.pc = "done", !.out = "returned"]
                             ELSE [read EXCEPT !.pc = "count"],
                             articles, spawned, wp_posts)
              \/ Fault(t, [task[t] EXCEPT !.pc = "done", !.out = "raised",
                                          !.extfail = TRUE], wp_posts)
        \/ /\ task[t].pc = "count"
           /\ \/ LET count == count_articles_for_date(Today)
                 IN Effect(t,
                           [task[t] EXCEPT
                              !.arg.count = count,
                              !.pc = IF ceiling_reached(count)
                                     THEN "limit" ELSE "rows"],
                           articles, spawned, wp_posts)
              \/ Fault(t, [task[t] EXCEPT !.pc = "done", !.out = "raised",
                                          !.extfail = TRUE], wp_posts)
        \/ /\ task[t].pc = "limit"
           /\ \/ Effect(t, [Returned(t) EXCEPT !.posted = <<LimitNotice>>],
                        articles, spawned, wp_posts)
              \/ Fault(t, [task[t] EXCEPT !.pc = "done", !.out = "raised",
                                          !.extfail = TRUE], wp_posts)
        \/ /\ task[t].pc = "rows"
           /\ \/ LET p == task[t].arg.planned[Len(task[t].posted) + 1]
                     sent == Append(task[t].posted, StartNotice(p))
                 IN Effect(t,
                           IF Len(sent) = Len(task[t].arg.planned)
                           THEN [Returned(t) EXCEPT !.posted = sent]
                           ELSE [task[t] EXCEPT !.posted = sent],
                           articles, spawned, wp_posts)
              \/ Fault(t, [task[t] EXCEPT !.pc = "done", !.out = "raised",
                                          !.extfail = TRUE], wp_posts)

NotifyNext == \E t \in Slots : notify_planned(t) \/ Finish(t)

NotifySpec == NotifyInit /\ [][NotifyNext]_vars

\* ---------------------------------------------------- a day of the workflow
\* The scheduler's tick and the start actions of one day, over a store whose
\* articles of each date are within the daily maximum.
DayInit ==
  /\ \E ids \in SUBSET ArticleIds :
       articles \in [ids -> {PlannedDoc(d) : d \in {Today, "d1"}}]
  /\ \A d \in {Today, "d1"} : count_articles_for_date(d) <= daily_max_articles
  /\ AtRest

\* process_slack_action "create_article": the value is the keyword.
DayActions == { <<"create_article", k>> : k \in {"k1", "k2"} }

day_slack_action(t) ==
  /\ Free(t)
  /\ StartAction(t, DayActions, MaxDayTriggers)

DayNext ==
  \E t \in Slots :
    \/ notify_planned(t)
    \/ day_slack_action(t)
    \/ start_article(t)
    \/ Finish(t)

DaySpec == DayInit /\ [][DayNext]_vars

\* ------------------------------------------------------ the Slack endpoints
\* An HTTP request to /slack/events or /slack/actions: the X-Slack-Retry-Num
\* header ("" when absent), the X-Slack-Request-Timestamp header (absent,
\* within the tolerance or older), the X-Slack-Signature header (absent, the
\* HMAC of the body or another value) and what the body holds.
EventPayloads == {"url_verification", "thread_reply", "message"}

ActionPayloads == {"missing", "no_actions", "button"}

Requests ==
  { r \in [ endpoint : {"slack_events", "slack_actions"},
            retry_num : {"", "1"},
            timestamp : {"", "fresh", "old"},
            signature : {"", "valid", "mismatch"},
            payload : EventPayloads \cup ActionPayloads ] :
      r.payload \in (IF r.endpoint = "slack_events" THEN EventPayloads
                     ELSE ActionPayloads) }

\* verify_slack_signature: the ValueError it raises, or None.
verify_slack_signature(timestamp, signature) ==
  IF timestamp = "" \/ signature = "" THEN "missing slack headers"
  ELSE IF timestamp = "old" THEN "timestamp too old"
  ELSE IF signature # "valid" THEN "signature mismatch"
  ELSE None

\* _verify_slack_request: the response it returns for a request with the
\* retry header, before it looks at the signature; else the 401 it raises
\* when the verification fails; else None.
verify_slack_request(req) ==
  IF req.retry_num # "" THEN "retry_ignored"
  ELSE IF verify_slack_signature(req.timestamp, req.signature) # None
       THEN "401"
  ELSE None

\* A request arrives; the endpoints serve requests concurrently.
receive_request(t) ==
  /\ task[t].kind = "idle"
  /\ triggers < MaxRequests
  /\ \E req \in Requests :
       task' = [task EXCEPT ![t] = NewTask(req.endpoint, "verify", req)]
  /\ triggers' = triggers + 1
  /\ UNCHANGED <<articles, spawned, wp_posts, now, ticks, faults, confirmed,
                 refused>>

\* How the endpoint answers; "handed" is the answer ok after
\* background_tasks.add_task passed the request to the engine.
Answered(t, response) == [task[t] EXCEPT !.pc = "done", !.out = response]

\* slack_events calls _verify_slack_request as a statement: a raised 401
\* ends the request, a returned response is dropped.
slack_events(t) ==
  /\ task[t].kind = "slack_events"
  /\ \/ /\ task[t].pc = "verify"
        /\ Effect(t,
                  IF verify_slack_request(task[t].arg) = "401"
                  THEN Answered(t, "401")
                  ELSE [task[t] EXCEPT !.pc = "payload"],
                  articles, spawned, wp_posts)
     \/ /\ task[t].pc = "payload"
        /\ Effect(t,
                  Answered(t, CASE task[t].arg.payload = "url_verification"
                                     -> "challenge"
                                [] task[t].arg.payload = "thread_reply"
                                     -> "handed"
                                [] OTHER -> "ok"),
                  articles, spawned, wp_posts)

\* slack_actions returns the response of _verify_slack_request when there
\* is one.
slack_actions(t) ==
  /\ task[t].kind = "slack_actions"
  /\ \/ /\ task[t].pc = "verify"
        /\ LET maybe_resp == verify_slack_request(task[t].arg)
           IN Effect(t,
                     IF maybe_resp # None THEN Answered(t, maybe_resp)
                     ELSE [task[t] EXCEPT !.pc = "payload"],
                     articles, spawned, wp_posts)
     \/ /\ task[t].pc = "payload"
        /\ Effect(t,
                  Answered(t, CASE task[t].arg.payload = "missing" -> "400"
                                [] task[t].arg.payload = "no_actions" -> "ok"
                                [] OTHER -> "handed"),
                  articles, spawned, wp_posts)

GateNext ==
  \E t \in Slots :
    \/ receive_request(t)
    \/ slack_events(t)
    \/ slack_actions(t)
    \/ Finish(t)

GateInit ==
  /\ articles = NoArticles
  /\ AtRest

GateSpec == GateInit /\ [][GateNext]_vars

\* ------------------------------------------------- buttons and their route
\* json_dumps_compact of the objects the block builders put into a value.
json_article(article_id) == "{\"article_id\":\"" \o article_id \o "\"}"

json_option(article_id, pmid) ==
  "{\"article_id\":\"" \o article_id \o "\",\"pmid\":\"" \o pmid \o "\"}"

json_planned(keyword, planned_date) ==
  "{\"keyword\":\"" \o keyword \o "\",\"planned_date\":\"" \o planned_date
     \o "\"}"

\* An interactive element of a posted message: a button carries its value,
\* a static_select carries one value per option (here: the option chosen).
Button(action_id, value) ==
  [type |-> "button", action_id |-> action_id, value |-> value]

Option(action_id, value) ==
  [type |-> "static_select", action_id |-> action_id, value |-> value]

\* The block builders of SlackUI that the workflow methods call, as the
\* interactive elements they put into the message.
notify_planned_blocks(keyword, planned_date) ==
  {Button("ARTICLE_START", json_planned(keyword, planned_date))}

outline_review_blocks(article_id) ==
  {Button("OUTLINE_APPROVE", json_article(article_id)),
   Button("OUTLINE_REQUEST_REVISION", json_article(article_id))}

paper_review_blocks(article_id, candidates) ==
  {Option("PAPER_SELECT", json_option(article_id, p)) : p \in candidates}
  \cup {Button("PAPER_REQUEST_REVISION", json_article(article_id))}

body_review_blocks(article_id) ==
  {Button("BODY_APPROVE", json_article(article_id)),
   Button("BODY_REQUEST_REVISION", json_article(article_id))}

final_review_blocks(article_id) ==
  {Button("FINAL_APPROVE", json_article(article_id)),
   Button("FINAL_DISCARD", json_article(article_id))}

error_message_blocks(article_id) ==
  {Button("RETRY", json_article(article_id))}

\* What an element was built from: the article, the candidate, the keyword.
About(article_id, pmid, keyword) ==
  [article_id |-> article_id, pmid |-> pmid, keyword |-> keyword]

\* The elements of the messages the workflow posts, each with what it was
\* built from.
PostedElements ==
  UNION { { [about |-> About(None, None, k), el |-> e] :
              e \in notify_planned_blocks(k, Today) } : k \in {"k1", "k2"} }
  \cup UNION { { [about |-> About(a, None, None), el |-> e] :
                   e \in outline_review_blocks(a)
                         \cup {x \in paper_review_blocks(a, PMIDS) :
                                 x.type = "button"}
                         \cup body_review_blocks(a)
                         \cup final_review_blocks(a)
                         \cup error_message_blocks(a) } : a \in ArticleIds }
  \cup UNION { { [about |-> About(a, p, None), el |-> e] :
                   e \in {x \in paper_review_blocks(a, {p}) :
                            x.type = "static_select"} } :
               a \in ArticleIds, p \in PMIDS }

\* The action Slack puts into the block_actions payload when the element
\* is used: a button comes back with its value, a static_select with the
\* chosen option under selected_option and no value.
block_action(el) ==
  [action_id |-> el.action_id,
   value |-> IF el.type = "button" THEN el.value ELSE None,
   selected_option |-> IF el.type = "button" THEN None ELSE el.value]

\* The user uses an element of a posted message; the request passes
\* _verify_slack_request.
press_element(t) ==
  /\ task[t].kind = "idle"
  /\ triggers < MaxClicks
  /\ \E m \in PostedElements :
       task' = [task EXCEPT ![t] =
                  NewTask("slack_action", "normalize",
                          [about |-> m.about, action |-> block_action(m.el),
                           normalized |-> None, call |-> None])]
  /\ triggers' = triggers + 1
  /\ UNCHANGED <<articles, spawned, wp_posts, now, ticks, faults, confirmed,
                 refused>>

\* normalized_action of slack_actions: action.get("action_id") and
\* action.get("value"), undecoded.
normalized_action(t) ==
  /\ task[t].kind = "slack_action"
  /\ task[t].pc = "normalize"
  /\ Effect(t, [task[t] EXCEPT
                  !.pc = "dispatch",
                  !.arg.normalized =
                    [action_id |-> task[t].arg.action.action_id,
                     value |-> task[t].arg.action.value]],
            articles, spawned, wp_posts)

\* A call of a workflow method, or no call at all.
Call(method, article_id, pmid, keyword) ==
  [method |-> method, article_id |-> article_id, pmid |-> pmid,
   keyword |-> keyword]

NoCall == Call(None, None, None, None)

\* (x or "").strip() of a field that may be absent.
text_of(x) == IF x = None THEN "" ELSE x

\* The action ids that start with "select_paper_" and the pmid that
\* follows the prefix.
SelectPaperIds == {"select_paper_" \o p : p \in PMIDS}

pmid_of(action_id) == CHOOSE p \in PMIDS : action_id = "select_paper_" \o p

\* The chain of tests of process_slack_action: the method it calls for an
\* action id and a value, with the value taken as the keyword or as the
\* article id; an id that matches no test falls through and nothing is
\* called.
route(action_id, value) ==
  IF action_id = "create_article"
  THEN Call("start_article", None, None, value)
  ELSE IF action_id = "skip_article" THEN Call("skip_article", None, None, value)
  ELSE IF value = "" THEN NoCall
  ELSE CASE action_id = "approve_outline"
              -> Call("approve_outline", value, None, None)
         [] action_id = "revise_outline"
              -> Call("request_outline_revision", value, None, None)
         [] action_id = "approve_body"
              -> Call("approve_body", value, None, None)
         [] action_id = "revise_body"
              -> Call("request_body_revision", value, None, None)
         [] action_id \in SelectPaperIds
              -> Call("select_paper", value, pmid_of(action_id), None)
         [] action_id = "revise_paper"
              -> Call("request_paper_revision", value, None, None)
         [] action_id = "final_approve"
              -> Call("final_approve", value, None, None)
         [] action_id = "final_discard"
              -> Call("final_discard", value, None, None)
         [] action_id = "confirm_publish"
              -> Call("confirm_publish", value, None, None)
         [] action_id = "retry" -> Call("retry", value, None, None)
         [] OTHER -> NoCall

\* process_slack_action on the normalized action.
dispatch_slack_action(t) ==
  /\ task[t].kind = "slack_action"
  /\ task[t].pc = "dispatch"
  /\ Effect(t, [task[t] EXCEPT
                  !.pc = "done", !.out = "returned",
                  !.arg.call = route(text_of(task[t].arg.normalized.action_id),
                                     text_of(task[t].arg.normalized.value))],
            articles, spawned, wp_posts)

DispatchNext ==
  \E t \in Slots :
    \/ press_element(t)
    \/ normalized_action(t)
    \/ dispatch_slack_action(t)
    \/ Finish(t)

DispatchSpec == GateInit /\ [][DispatchNext]_vars

\* ------------------------------------------------- units that run to an end
\* The record waits in a review or in ERROR; any action and any thread reply
\* arrives, runs overlap, and every external call returns, with a result or
\* with a failure.  The store stays reachable for the write of
\* _handle_error.  Every step of a run that can be taken is taken in the
\* end (the event loop runs every task that is ready), and so is the start
\* of every unit handed to asyncio.create_task.
LiveInit ==
  /\ \E stage \in Stages : articles = [a \in {AID} |-> ReviewDoc(stage, 0)]
  /\ AtRest

live_slack_action(t) ==
  /\ FreeSlot(t)
  /\ StartAction(t, Actions, MaxLiveTriggers)

live_thread_message(t) ==
  /\ FreeSlot(t)
  /\ StartReply(t, ThreadTs, MaxLiveTriggers)

recorded_error(t) ==
  /\ handle_error(t)
  /\ task'[t].recorded # "lost"

\* The steps of the runs and of the units of work.
LiveStep ==
  \E t \in Slots :
    \/ thread_message_find(t)
    \/ overlapping_spawned(t)
    \/ start_article(t)
    \/ generate_outline(t)
    \/ approve_outline(t)
    \/ request_outline_revision(t)
    \/ receive_outline_feedback(t)
    \/ search_papers(t)
    \/ request_paper_revision(t)
    \/ receive_paper_feedback(t)
    \/ select_paper(t)
    \/ generate_body(t)
    \/ approve_body(t)
    \/ request_body_revision(t)
    \/ receive_body_feedback(t)
    \/ final_approve(t)
    \/ final_discard(t)
    \/ confirm_publish(t)
    \/ publish_article(t)
    \/ retry(t)
    \/ recorded_error(t)
    \/ Finish(t)

LiveNext ==
  \/ \E t \in Slots : live_slack_action(t) \/ live_thread_message(t)
  \/ LiveStep

LiveSpec == LiveInit /\ [][LiveNext]_vars /\ WF_vars(LiveStep)

\* -------------------------------------------------------------- properties
\* The phase graph of the workflow description.
GraphEdges ==
  { <<"OUTLINE_GENERATING", "OUTLINE_REVIEW">>,
    <<"OUTLINE_REVIEW", "OUTLINE_WAITING_FEEDBACK">>,
    <<"OUTLINE_REVIEW", "OUTLINE_CONFIRMED">>,
    <<"OUTLINE_REVIEW", "FINAL_REVIEW">>,
    <<"OUTLINE_WAITING_FEEDBACK", "OUTLINE_GENERATING">>,
    <<"OUTLINE_CONFIRMED", "PAPER_SEARCHING">>,
    <<"PAPER_SEARCHING", "PAPER_REVIEW">>,
    <<"PAPER_REVIEW", "PAPER_WAITING_FEEDBACK">>,
    <<"PAPER_REVIEW", "BODY_GENERATING">>,
    <<"PAPER_WAITING_FEEDBACK", "PAPER_SEARCHING">>,
    <<"BODY_GENERATING", "BODY_REVIEW">>,
    <<"BODY_REVIEW", "BODY_WAITING_FEEDBACK">>,
    <<"BODY_REVIEW", "READY_TO_PUBLISH">>,
    <<"BODY_REVIEW", "FINAL_REVIEW">>,
    <<"BODY_WAITING_FEEDBACK", "BODY_GENERATING">>,
    <<"READY_TO_PUBLISH", "PUBLISHING">>,
    <<"PUBLISHING", "PUBLISHED">>,
    <<"FINAL_REVIEW", "DISCARDED">>,
    <<"FINAL_REVIEW", "READY_TO_PUBLISH">>,
    <<"FINAL_REVIEW", "BODY_GENERATING">>,
    <<"FINAL_REVIEW", "PAPER_SEARCHING">>,
    <<"FINAL_REVIEW", "OUTLINE_GENERATING">> }

Terminal == {"PUBLISHED", "DISCARDED"}

\* p -> q is an edge, given the phases an error may have recorded.
PhaseEdge(p, q, recorded_prev) ==
  \/ <<p, q>> \in GraphEdges
  \/ p \notin Terminal /\ q = "ERROR"
  \/ p = "ERROR" /\ q \in recorded_prev

\* The error_prev_phase values in play: the stored one and the one a running
\* retry loaded before clear_error removed it.
RecordedPrev ==
  {doc.error_prev_phase} \cup {task[t].st.error_prev_phase : t \in Slots}

ErrorFields ==
  { "error_prev_phase", "error_type", "error_message", "error_user_message",
    "error_occurred_at", "retry_available_until" }

ErrorMessages(t) ==
  Cardinality({i \in 1..Len(task[t].posted) : task[t].posted[i] = "error"})

\* C1: every change of the stored phase follows an edge of the phase graph
\* (the listed edges, any non-terminal phase to ERROR, ERROR to the
\* recorded error_prev_phase).
C1_PhaseFollowsGraph ==
  [][(Exists /\ doc'.phase # doc.phase)
       => PhaseEdge(doc.phase, doc'.phase, RecordedPrev)]_vars

\* C2: on the happy path, where no external call fails, start, body
\* generation and Approve of the body each run to their end without an
\* error.
C2_HappyPathSucceeds ==
  \A t \in Slots :
    ( /\ task[t].kind \in {"start_article", "generate_body", "approve_body"}
      /\ task[t].pc = "done"
      /\ ~task[t].extfail
      /\ (Exists \/ task[t].kind = "start_article") )
    => (task[t].out = "returned" /\ task[t].err = None)

\* C3: once the stored phase is PUBLISHED or DISCARDED no step changes it.
C3_TerminalIsFinal ==
  [][(Exists /\ doc.phase \in Terminal) => doc'.phase = doc.phase]_vars

C5_PublishIdempotent ==
  \A t \in Slots :
    task[t].kind = "publish_article" =>
      /\ task[t].created => task[t].post = 1
      /\ task[t].existing # NoInt =>
           /\ ~task[t].gen
           /\ ~task[t].created
           /\ task[t].post = task[t].existing
           /\ task[t].st.wp_post_id # NoInt
                => task[t].st.wp_post_id = task[t].existing
           /\ (task[t].pc \in {"post", "done"} /\ task[t].err = None)
                => /\ doc.phase = "PUBLISHED"
                   /\ doc.wp_post_id = task[t].existing
                   /\ doc.wp_post_url = task[t].existing

\* C5 witness: a publish run has found the post an earlier run created,
\* stored its id and url, and ended in PUBLISHED.
C5_ExistingPostAdopted ==
  \E t \in Slots :
    /\ task[t].kind = "publish_article"
    /\ task[t].existing # NoInt
    /\ task[t].st.wp_post_id = task[t].existing
    /\ task[t].pc = "done"
    /\ task[t].err = None
    /\ doc.phase = "PUBLISHED"

\* C6 as stated: every failed publish_article run leaves the record in
\* ERROR with error_prev_phase PUBLISHING.
C6_EveryFailureRecorded ==
  \A t \in Slots :
    (task[t].kind = "publish_article" /\ task[t].pc = "done" /\ task[t].err # None)
    => (doc.phase = "ERROR" /\ doc.error_prev_phase = "PUBLISHING")

\* C6, amended: every failure of a publish_article sub-step is handed to
\* the error handling; whenever its write reaches the store the record is
\* in ERROR with error_prev_phase PUBLISHING; and at most one post with the
\* article's marker ever exists.
C6_RetrySafePublish ==
  /\ wp_posts <= 1
  /\ \A t \in Slots :
       task[t].kind = "publish_article" =>
         /\ task[t].extfail => task[t].err # None
         /\ (task[t].err # None /\ task[t].recorded = "yes")
              => (doc.phase = "ERROR" /\ doc.error_prev_phase = "PUBLISHING")

\* C6 witness: a publish run that a retry started, after a run that created
\* the post and failed before storing it, has found that post.
C6_RetriedAfterFailure ==
  \E t \in Slots :
    /\ task[t].kind = "publish_article"
    /\ task[t].pc = "adopt"
    /\ task[t].existing # NoInt
    /\ task[t].st.wp_post_id = NoInt
    /\ task[t].st.phase = "PUBLISHING"
    /\ task[t].st.error_prev_phase = None
    /\ faults > 0
    /\ wp_posts = 1

\* C7: select_paper with a pmid that is not among the stored candidates
\* fails with CandidateNotFound and leaves phase, selected_pmid, the thread
\* marker and the error fields as they were.
C7_UnknownCandidateLeavesRecord ==
  \A t \in Slots :
    ( /\ task[t].kind = "select_paper"
      /\ task[t].pc = "done"
      /\ Exists
      /\ ~task[t].extfail
      /\ task[t].arg \notin task[t].st.paper_candidates )
    => /\ task[t].err = "CandidateNotFound"
       /\ \A f \in ErrorFields \cup {"phase", "selected_pmid",
                                     "slack_revision_thread_ts"} :
            doc[f] = task[t].st[f]

\* C8: a retry that found the retry window elapsed writes no field of the
\* record, whether or not its notification is posted.
C8_ExpiredRetryWritesNothing ==
  \A t \in Slots :
    (task[t].kind = "retry" /\ WindowElapsed(task[t].st, now))
    => (from_dict(doc) = task[t].st /\ task[t].recorded = "no")

\* C9: once a retry has been refused because the window had elapsed, no
\* retry passes the expiry check again.
C9_ExpiryIsPermanent ==
  refused =>
    \A t \in Slots :
      ~(task[t].kind = "retry" /\ task[t].pc \in {"clear", "upd"})

UnitOfWork ==
  [ p \in {"OUTLINE_GENERATING", "PAPER_SEARCHING", "BODY_GENERATING",
           "PUBLISHING"} |->
      CASE p = "OUTLINE_GENERATING" -> "generate_outline"
        [] p = "PAPER_SEARCHING" -> "search_papers"
        [] p = "BODY_GENERATING" -> "generate_body"
        [] p = "PUBLISHING" -> "publish_article" ]

\* Field f of the stored document d holds no value.
FieldAbsent(d, f) ==
  IF f \in {"error_occurred_at", "retry_available_until"}
  THEN d[f] = NoInt ELSE d[f] = None

RevisionCounts ==
  {"outline_revision_count", "paper_revision_count", "body_revision_count"}

\* C11: the step that completes a RETRY inside the retry window, on a record
\* whose error_prev_phase was P, leaves the six error fields absent and the
\* stored phase P, starts exactly one unit of work, the one of P when P is a
\* phase in which work is done, and changes no revision count.
C11_RetryResumes ==
  [][\A t \in Slots :
       (task[t].kind = "retry" /\ task[t].pc = "upd" /\ task'[t].pc = "done")
       => LET P == task[t].st.error_prev_phase
          IN /\ P \in Phase
             /\ \A f \in ErrorFields : FieldAbsent(doc', f)
             /\ doc'.phase = P
             /\ \E k \in SpawnKinds :
                  /\ spawned' = [spawned EXCEPT ![k] = @ + 1]
                  /\ P \in DOMAIN UnitOfWork => k = UnitOfWork[P]
             /\ \A c \in RevisionCounts :
                  doc'[c] = doc[c] /\ doc'[c] = task[t].st[c]]_vars

\* C11 witness: a RETRY on a record that failed while publishing has ended:
\* the error fields are gone, the phase is PUBLISHING again and the publish
\* unit of work is started.
C11_RetryRestarted ==
  \E t \in Slots :
    /\ task[t].kind = "retry"
    /\ task[t].pc = "done"
    /\ task[t].out = "returned"
    /\ task[t].arg = None
    /\ Exists
    /\ doc.phase = "PUBLISHING"
    /\ doc.error_prev_phase = None
    /\ doc.retry_available_until = NoInt
    /\ spawned["publish_article"] = 1

\* What each ReceiveFeedback handler is to store: the count it increments,
\* the text it stores, the phase it sets and the phase it is accepted in.
FeedbackStage ==
  [ k \in {"receive_outline_feedback", "receive_paper_feedback",
           "receive_body_feedback"} |->
      CASE k = "receive_outline_feedback" ->
             [ count |-> "outline_revision_count",
               text |-> "outline_feedback_text",
               next |-> "OUTLINE_GENERATING",
               waiting |-> "OUTLINE_WAITING_FEEDBACK" ]
        [] k = "receive_paper_feedback" ->
             [ count |-> "paper_revision_count",
               text |-> "paper_feedback_text",
               next |-> "PAPER_SEARCHING",
               waiting |-> "PAPER_WAITING_FEEDBACK" ]
        [] k = "receive_body_feedback" ->
             [ count |-> "body_revision_count",
               text |-> "body_feedback_text",
               next |-> "BODY_GENERATING",
               waiting |-> "BODY_WAITING_FEEDBACK" ] ]

\* The step in which run t of a ReceiveFeedback handler completes its write.
FeedbackWrite(t) ==
  /\ task[t].kind \in DOMAIN FeedbackStage
  /\ task[t].pc = "upd"
  /\ task'[t].pc = "post"

\* C12: every completed ReceiveFeedback write stores a count one greater
\* than the count stored immediately before it, stores the feedback text,
\* clears the thread marker, sets the stage's generating or searching phase
\* and leaves the other two counts alone; no other step changes a count.
C12_FeedbackAddsOne ==
  [][Exists =>
       /\ \A t \in Slots :
            FeedbackWrite(t) =>
              LET g == FeedbackStage[task[t].kind]
              IN /\ doc'[g.count] = doc[g.count] + 1
                 /\ doc'[g.text] = "feedback"
                 /\ doc'.slack_revision_thread_ts = None
                 /\ doc'.phase = g.next
                 /\ \A c \in RevisionCounts \ {g.count} : doc'[c] = doc[c]
       /\ (\E c \in RevisionCounts : doc'[c] # doc[c])
            => \E t \in Slots : FeedbackWrite(t)]_vars

\* The RequestRevision handlers of the outline and the body stage, with the
\* count they test and the phase in which they wait for feedback.
CeilingStage ==
  [ k \in {"request_outline_revision", "request_body_revision"} |->
      IF k = "request_outline_revision"
      THEN [ count |-> "outline_revision_count",
             waiting |-> "OUTLINE_WAITING_FEEDBACK" ]
      ELSE [ count |-> "body_revision_count",
             waiting |-> "BODY_WAITING_FEEDBACK" ] ]

\* Run t has moved in this step, having loaded a state whose count c is at
\* the ceiling.
StepAtCeiling(t, c) ==
  /\ task'[t] # task[t]
  /\ task'[t].kind = task[t].kind
  /\ task[t].pc # "get"
  /\ task[t].st[c] >= RevisionCeiling

\* C13: a RequestRevision of the outline or body stage that loaded a count
\* of 3 or more writes FINAL_REVIEW with a null thread marker; no step of
\* it sets the stage's WAITING_FEEDBACK phase or stores a marker (the only
\* other write it can make is the error record, which clears the marker).
C13_CeilingRoutesToFinalReview ==
  [][\A t \in Slots :
       (task[t].kind \in DOMAIN CeilingStage
        /\ StepAtCeiling(t, CeilingStage[task[t].kind].count))
       => /\ (task[t].pc = "upd" /\ task'[t].err = None)
               => /\ task'[t].pc = "post_final"
                  /\ doc'.phase = "FINAL_REVIEW"
                  /\ doc'.slack_revision_thread_ts = None
          /\ doc' # doc
               => /\ doc'.phase \in {"FINAL_REVIEW", "ERROR"}
                  /\ doc'.slack_revision_thread_ts = None]_vars

\* C13 witness: the fourth RequestRevision on the outline, after three
\* rounds, has ended: FINAL_REVIEW, no marker, the final-review message.
C13_FourthRequestInFinalReview ==
  \E t \in Slots :
    /\ task[t].kind = "request_outline_revision"
    /\ task[t].pc = "done"
    /\ task[t].out = "returned"
    /\ task[t].posted = <<"final_review">>
    /\ task[t].st.outline_revision_count = RevisionCeiling
    /\ doc.phase = "FINAL_REVIEW"
    /\ doc.slack_revision_thread_ts = None

\* Run t of request_paper_revision moves in this step.
PaperRequestStep(t) ==
  /\ task[t].kind = "request_paper_revision"
  /\ task'[t] # task[t]
  /\ task'[t].kind = task[t].kind

\* Run t of request_paper_revision has taken the branch for a count of 3 or
\* more: it is about to post the notice, or the post has failed and the
\* state it holds is the one it loaded, not one its own write returned.
OnPaperCeilingBranch(t) ==
  \/ task[t].pc = "post_pick"
  \/ /\ task[t].pc \in {"h_get", "h_post"}
     /\ task[t].err = "SlackApiError"
     /\ task[t].st.paper_revision_count >= RevisionCeiling
     /\ ~(task[t].st.phase = "PAPER_WAITING_FEEDBACK"
          /\ task[t].st.slack_revision_thread_ts = task[t].arg)

\* C14 as stated: a RequestRevision of the paper stage that loaded a count
\* of 3 or more leaves the whole record unchanged.
C14_PaperCeilingWritesNothing ==
  [][\A t \in Slots :
       (PaperRequestStep(t) /\ OnPaperCeilingBranch(t)) => doc' = doc]_vars

\* C14, amended: a RequestRevision of the paper stage that loads a count of
\* 3 or more goes on to post the pick-from-candidates notice and to nothing
\* else; posting it leaves the record unchanged; no step of the handler
\* sets FINAL_REVIEW, and PAPER_WAITING_FEEDBACK and a marker are stored
\* only by the write of the other branch; when the notice cannot be posted
\* the failure is recorded (phase ERROR, error_prev_phase PAPER_REVIEW, no
\* marker) and counts and candidates stay as they were.
C14_PaperCeilingKeepsRecord ==
  [][\A t \in Slots :
       PaperRequestStep(t) =>
         /\ (task[t].pc = "get" /\ task'[t].err = None
              /\ doc.paper_revision_count >= RevisionCeiling)
              => (task'[t].pc = "post_pick" /\ doc' = doc)
         /\ task[t].pc = "post_pick"
              => /\ doc' = doc
                 /\ task'[t].err = None
                      => /\ task'[t].pc = "done"
                         /\ task'[t].posted = <<"pick_existing">>
         /\ doc' # doc
              => /\ doc'.phase # "FINAL_REVIEW"
                 /\ doc'.paper_candidates = doc.paper_candidates
                 /\ \A c \in RevisionCounts : doc'[c] = doc[c]
                 /\ \/ /\ task[t].pc = "upd"
                       /\ doc'.phase = "PAPER_WAITING_FEEDBACK"
                    \/ /\ task[t].pc = "h_get"
                       /\ doc'.phase = "ERROR"
                       /\ doc'.error_prev_phase = "PAPER_REVIEW"
                       /\ doc'.slack_revision_thread_ts = None]_vars

\* C14 witness: a RequestRevision on the paper stage at count 3 has ended
\* with the notice posted and the record as it loaded it.
C14_PickNoticePosted ==
  \E t \in Slots :
    /\ task[t].kind = "request_paper_revision"
    /\ task[t].pc = "done"
    /\ task[t].out = "returned"
    /\ task[t].posted = <<"pick_existing">>
    /\ task[t].st.paper_revision_count = RevisionCeiling
    /\ from_dict(doc) = task[t].st
    /\ doc.phase = "PAPER_REVIEW"

\* C15: in every stored state each of the three revision counts lies
\* between 0 and 3, and no step lowers one, whatever the triggers and
\* however their runs interleave.
C15_CountsWithinCeiling ==
  [][Exists =>
       \A c \in RevisionCounts :
         /\ doc'[c] \in 0..RevisionCeiling
         /\ doc'[c] >= doc[c]]_vars

WaitingPhases ==
  {"OUTLINE_WAITING_FEEDBACK", "PAPER_WAITING_FEEDBACK", "BODY_WAITING_FEEDBACK"}

\* C17: in every stored state the thread marker is set exactly when the
\* phase is one of the three WAITING_FEEDBACK phases.
C17_MarkerIffWaiting ==
  Exists =>
    (doc.slack_revision_thread_ts # None <=> doc.phase \in WaitingPhases)

\* C18: the write of a ReceiveFeedback handler (feedback text, count + 1) is
\* applied only to a record whose stored phase at that moment is the
\* stage's WAITING_FEEDBACK phase, however the runs interleave.
C18_FeedbackOnlyWhileWaiting ==
  [][\A t \in Slots :
       FeedbackWrite(t) => doc.phase = FeedbackStage[task[t].kind].waiting]_vars

\* C19: the query step of a thread reply whose thread_ts equals no record's
\* thread marker ends the processing: no record is changed, no error is
\* recorded, nothing is posted and no unit of work is started.
C19_UnmatchedReplyIgnored ==
  [][\A t \in Slots :
       ( /\ task[t].kind = "process_slack_thread_message"
         /\ task[t].pc = "find"
         /\ task'[t] # task[t]
         /\ (~Exists \/ doc.slack_revision_thread_ts # task[t].arg) )
       => /\ articles' = articles
          /\ spawned' = spawned
          /\ wp_posts' = wp_posts
          /\ task'[t].kind = "process_slack_thread_message"
          /\ task'[t].pc = "done"
          /\ task'[t].posted = <<>>
          /\ task'[t].recorded = "no"
          /\ task'[t].err = None]_vars

\* C19 witness: a reply in thread ts2 has been processed to its end while
\* the record waits for feedback in thread ts1.
C19_ForeignReplyProcessed ==
  \E t \in Slots :
    /\ task[t].kind = "process_slack_thread_message"
    /\ task[t].pc = "done"
    /\ task[t].out = "returned"
    /\ task[t].arg = "ts2"
    /\ doc.slack_revision_thread_ts = "ts1"
    /\ doc.phase \in WaitingPhases

\* The six error fields of the stored document d are all present or all
\* absent.
AllOrNone(d) ==
  \/ \A f \in ErrorFields : FieldAbsent(d, f)
  \/ \A f \in ErrorFields : ~FieldAbsent(d, f)

\* C20: in every stored state the six error fields are all present or all
\* absent, and a step that changes any of them either leaves all six
\* absent or is the error write of a handler, which sets all six.
C20_ErrorFieldsAllOrNone ==
  [][Exists =>
       /\ AllOrNone(doc) /\ AllOrNone(doc')
       /\ (\E f \in ErrorFields : doc'[f] # doc[f])
            => \/ \A f \in ErrorFields : FieldAbsent(doc', f)
               \/ \E t \in Slots :
                    /\ task[t].pc = "h_get"
                    /\ task'[t].recorded = "yes"
                    /\ doc'.error_prev_phase = PrevPhase(task[t].kind)
                    /\ doc'.error_type = task[t].err
                    /\ doc'.error_message # None
                    /\ doc'.error_user_message # None
                    /\ doc'.error_occurred_at = now
                    /\ doc'.retry_available_until = now + RetryDays]_vars

\* C20 witness: a retry has cleared the error fields of a record that had
\* all six set and has not yet restored the phase.
C20_ErrorFieldsCleared ==
  \E t \in Slots :
    /\ task[t].kind = "retry"
    /\ task[t].pc = "upd"
    /\ \A f \in ErrorFields : ~FieldAbsent(task[t].st, f)
    /\ \A f \in ErrorFields : FieldAbsent(doc, f)
    /\ doc.phase = "ERROR"

\* C16: between two consecutive writes to the record phase_updated_at
\* differs exactly when phase differs; every write sets updated_at to the
\* time of the write; a write that asks for the phase the record already
\* has leaves phase_updated_at as it was.
C16_PhaseStampIffPhaseChanges ==
  [][doc' # doc =>
       /\ (doc'.phase_updated_at # doc.phase_updated_at) <=> (doc'.phase # doc.phase)
       /\ doc'.phase # doc.phase => doc'.phase_updated_at = now'
       /\ doc'.updated_at = now'
       /\ doc'.updated_at > doc.updated_at]_vars

\* C21: in every stored state the error fields are present exactly when the
\* phase is ERROR.
C21_ErrorFieldsIffError ==
  Exists =>
    /\ doc.phase = "ERROR" => \A f \in ErrorFields : ~FieldAbsent(doc, f)
    /\ doc.phase # "ERROR" => \A f \in ErrorFields : FieldAbsent(doc, f)

\* The workflow methods a trigger invokes.
WorkflowMethods ==
  { "start_article", "generate_outline", "approve_outline", "approve_body",
    "request_outline_revision", "request_paper_revision",
    "request_body_revision", "receive_outline_feedback",
    "receive_paper_feedback", "receive_body_feedback", "search_papers",
    "select_paper", "generate_body", "final_approve", "final_discard",
    "confirm_publish", "publish_article", "retry" }

\* C22: every run of a workflow method ends by returning normally to its
\* caller, whatever failed in it.
C22_NoFailureEscapes ==
  \A t \in Slots :
    (task[t].kind \in WorkflowMethods /\ task[t].pc = "done")
    => task[t].out = "returned"

\* C29: whenever a write sets the phase to ERROR, the error_prev_phase it
\* stores is the phase the record had immediately before that write.
C29_ErrorRecordsInterruptedPhase ==
  [][(Exists /\ doc' # doc /\ doc'.phase = "ERROR"
      /\ doc'.error_occurred_at = now
      /\ \E t \in Slots : task[t].pc = "h_get" /\ task'[t].recorded = "yes")
     => doc'.error_prev_phase = doc.phase]_vars

\* C23: loading a record whose stored phase is missing, empty or any string
\* that names no phase never fails, and the loaded phase is ERROR.
C23_DecodeNeverFails ==
  \A t \in Slots :
    (task[t].kind = "get_article" /\ task[t].pc = "done" /\ ~task[t].extfail)
    => /\ task[t].out = "returned"
       /\ doc.phase \notin Phase => task[t].st.phase = "ERROR"

\* The phase the final decision resolves to, by the artifacts of record d.
ResolvedPhase(d) ==
  IF d.body_text # None THEN "READY_TO_PUBLISH"
  ELSE IF d.selected_pmid # None THEN "BODY_GENERATING"
  ELSE IF d.outline_text # None THEN "PAPER_SEARCHING"
  ELSE "OUTLINE_GENERATING"

\* C24: on a record in FINAL_REVIEW, final_discard ends with the record in
\* DISCARDED and final_approve ends with it in READY_TO_PUBLISH if a body is
\* present, else BODY_GENERATING if a paper is selected, else PAPER_SEARCHING
\* if an outline is present, else OUTLINE_GENERATING.
C24_FinalReviewResolves ==
  \A t \in Slots :
    (triggers = 1 /\ task[t].pc = "done" /\ ~task[t].extfail)
    => /\ task[t].kind = "final_discard" => doc.phase = "DISCARDED"
       /\ task[t].kind = "final_approve" => doc.phase = ResolvedPhase(doc)

\* Today's planned pairs of a sheet, and today's article count.
TodaysPairs(values) ==
  { values[i] : i \in {j \in 1..Len(values) :
                          values[j][1] # "" /\ values[j][2] = Today} }

TodaysCount ==
  Cardinality({a \in DOMAIN articles : articles[a].planned_date = Today})

\* C25: with at least one planned pair and today's count at or over the
\* ceiling, notify_planned posts nothing but one limit notice; otherwise it
\* posts nothing but start notifications of today's pairs, none twice; and
\* when it returns it has posted exactly the limit notice, or exactly one
\* start notification per distinct pair.
C25_NotifyAllOrNothing ==
  \A t \in Slots :
    (/\ task[t].kind = "notify_planned"
     /\ \/ task[t].pc \in {"count", "limit", "rows"}
        \/ task[t].out = "returned"
        \/ task[t].posted # <<>>)
    => LET pairs == TodaysPairs(task[t].arg.values)
           posted == task[t].posted
           limited == pairs # {} /\ TodaysCount >= daily_max_articles
           finished == task[t].pc = "done" /\ task[t].out = "returned"
       IN /\ limited => /\ Len(posted) <= 1
                         /\ \A i \in 1..Len(posted) : posted[i] = LimitNotice
                         /\ finished => posted = <<LimitNotice>>
          /\ ~limited =>
                /\ \A i \in 1..Len(posted) :
                      \E p \in pairs :
                        posted[i] = [kind |-> "start", keyword |-> p[1],
                                     planned_date |-> p[2]]
                /\ \A i, j \in 1..Len(posted) : posted[i] = posted[j] => i = j
                /\ finished => Len(posted) = Cardinality(pairs)

\* A run stopped at the ceiling with two distinct pairs planned.
C25_LimitNoticePosted ==
  \E t \in Slots :
    /\ task[t].kind = "notify_planned"
    /\ task[t].pc = "done"
    /\ task[t].out = "returned"
    /\ task[t].posted = <<LimitNotice>>
    /\ Cardinality(TodaysPairs(task[t].arg.values)) = 2
    /\ TodaysCount = daily_max_articles

\* C26: once the record exists, no operation changes its created_at.
C26_CreatedAtSetOnce ==
  [][doc'.created_at = doc.created_at]_vars

\* C27: however the steps of two publish runs interleave, at most one post
\* carrying the article's marker is created.
C27_AtMostOnePost == wp_posts <= 1

\* C28: a write that changes the stored phase sets phase_updated_at to the
\* updated_at it stores, and a write that leaves the stored phase as it was
\* leaves phase_updated_at as it was.
C28_PhaseStampFollowsLastChange ==
  [][doc' # doc =>
       IF doc'.phase # doc.phase
       THEN doc'.phase_updated_at = doc'.updated_at
       ELSE doc'.phase_updated_at = doc.phase_updated_at]_vars

\* The unit of work that resumes record d at its furthest-advanced stage,
\* and the phase that goes with each unit.
FurthestWork(d) ==
  IF d.body_text # None THEN "publish_article"
  ELSE IF d.selected_pmid # None THEN "generate_body"
  ELSE IF d.outline_text # None THEN "search_papers"
  ELSE "generate_outline"

PhaseOfWork(kind) ==
  CASE kind = "publish_article" -> "PUBLISHING"
    [] kind = "generate_body" -> "BODY_GENERATING"
    [] kind = "search_papers" -> "PAPER_SEARCHING"
    [] kind = "generate_outline" -> "OUTLINE_GENERATING"

\* C30: a RETRY that goes through on a record whose error_prev_phase names
\* no phase starts the unit of work of the furthest-advanced stage the
\* artifacts show and stores the phase of that unit.
C30_RetryFallsBackToArtifacts ==
  [][\A t \in Slots :
       (/\ task[t].kind = "retry"
        /\ task[t].pc = "upd"
        /\ task'[t].pc = "done"
        /\ task[t].st.error_prev_phase \notin Phase)
       => /\ spawned' = [spawned EXCEPT ![FurthestWork(doc)] = @ + 1]
          /\ doc'.phase = PhaseOfWork(FurthestWork(doc))]_vars

\* C31: in every stored state in FINAL_REVIEW the outline or the body
\* revision count has reached the ceiling.
C31_FinalReviewOnlyAtCeiling ==
  (Exists /\ doc.phase = "FINAL_REVIEW")
  => \/ doc.outline_revision_count >= RevisionCeiling
     \/ doc.body_revision_count >= RevisionCeiling

\* C32: the phase never goes from OUTLINE_CONFIRMED directly to
\* PAPER_REVIEW, and search_papers makes its external calls only while the
\* stored phase is PAPER_SEARCHING.
C32_SearchRunsInPaperSearching ==
  [][Exists =>
       /\ doc.phase = "OUTLINE_CONFIRMED" => doc'.phase # "PAPER_REVIEW"
       /\ \A t \in Slots :
            (/\ task[t].kind = "search_papers"
             /\ task[t].pc = "upd"
             /\ task'[t].pc # "upd")
            => doc.phase = "PAPER_SEARCHING"]_vars

\* C33: selected_pmid and selected_paper of the stored record are set
\* together and cleared together; after a search both are unset.
C33_SelectionClearedTogether ==
  Exists => (doc.selected_pmid = None <=> doc.selected_paper = None)

\* The publish artifacts of record d are set.
Published(d) == d.wp_post_id # NoInt /\ d.wp_post_url # NoInt

\* C35: wp_post_id and wp_post_url change only in a write after which the
\* phase is PUBLISHED, and they are set in every state whose phase is
\* PUBLISHED.
C35_ArtifactsWrittenWithPublished ==
  [][Exists =>
       /\ (doc'.wp_post_id # doc.wp_post_id \/ doc'.wp_post_url # doc.wp_post_url)
          => doc'.phase = "PUBLISHED"
       /\ doc'.phase = "PUBLISHED" => Published(doc')
       /\ doc.phase = "PUBLISHED" => Published(doc)]_vars

\* A publish run has created the post and stored its id and url.
C35_PublishedWithArtifacts ==
  /\ Exists
  /\ doc.phase = "PUBLISHED"
  /\ Published(doc)
  /\ wp_posts = 1
  /\ \E t \in Slots : task[t].kind = "publish_article" /\ task[t].created

\* C37: the error_prev_phase of a stored record is never ERROR.
C37_ResumePointNeverError ==
  Exists => doc.error_prev_phase # "ERROR"

\* C36: in every stored state a selected_pmid that is set is the id of one
\* of the record's current paper_candidates.
C36_SelectionAmongCandidates ==
  (Exists /\ doc.selected_pmid # None)
  => doc.selected_pmid \in doc.paper_candidates

C40_OnlyVerifiedFirstDeliveries ==
  \A t \in Slots :
    task[t].out = "handed"
    => /\ task[t].arg.retry_num = ""
       /\ verify_slack_signature(task[t].arg.timestamp,
                                 task[t].arg.signature) = None

\* The transition a button or select menu stands for.
Corresponding(action_id) ==
  CASE action_id = "ARTICLE_START" -> "start_article"
    [] action_id = "OUTLINE_APPROVE" -> "approve_outline"
    [] action_id = "OUTLINE_REQUEST_REVISION" -> "request_outline_revision"
    [] action_id = "PAPER_SELECT" -> "select_paper"
    [] action_id = "PAPER_REQUEST_REVISION" -> "request_paper_revision"
    [] action_id = "BODY_APPROVE" -> "approve_body"
    [] action_id = "BODY_REQUEST_REVISION" -> "request_body_revision"
    [] action_id = "FINAL_APPROVE" -> "final_approve"
    [] action_id = "FINAL_DISCARD" -> "final_discard"
    [] action_id = "ARTICLE_PUBLISH" -> "confirm_publish"
    [] action_id = "RETRY" -> "retry"

\* C39: an element of a posted message, used by the user, is routed by
\* process_slack_action to the transition it stands for, with the article
\* id (and the candidate id, or the keyword) it was built from.
C39_EveryAffordanceDispatched ==
  \A t \in Slots :
    (task[t].kind = "slack_action" /\ task[t].pc = "done")
    => task[t].arg.call = Call(Corresponding(task[t].arg.action.action_id),
                               task[t].arg.about.article_id,
                               task[t].arg.about.pmid,
                               task[t].arg.about.keyword)

\* The phase a working phase ends in when its unit of work succeeds.
ReviewOf(working) ==
  CASE working = "OUTLINE_GENERATING" -> "OUTLINE_REVIEW"
    [] working = "PAPER_SEARCHING" -> "PAPER_REVIEW"
    [] working = "BODY_GENERATING" -> "BODY_REVIEW"
    [] working = "PUBLISHING" -> "PUBLISHED"

====
